---- MODULE Spec2Model ----
(***************************************************************************)
(* Model of the hybrid recommendation engine of graphql-recommendation-api *)
(* (app/recommendation, app/cache, app/api/resolvers.py).                  *)
(*                                                                         *)
(* Numbers.  Interaction values and ratings are small naturals.  A float   *)
(* score s is the integer s * Scale (fixed point, truncated).  A hybrid    *)
(* weight w is the integer w * WeightUnit; WeightUnit is chosen so that    *)
(* every weight the default configuration can resolve to is exact.         *)
(* Python indices are 0-based, the model's are 1-based.                    *)
(***************************************************************************)
EXTENDS Integers, Sequences, FiniteSets, TLC

Users == {"u1", "u2", "u3"}
Items == {"i1", "i2", "i3"}

Scale == 10 * 10
WeightUnit == 42 * 100

\* a dict key that is missing (row.get returns None / the default)
None == 0 - 1

(***************************************************************************)
(* Helpers: Python and numpy primitives                                     *)
(***************************************************************************)
Range(s) == {s[k] : k \in DOMAIN s}

RECURSIVE SumSeq(_)
SumSeq(s) == IF s = <<>> THEN 0 ELSE Head(s) + SumSeq(Tail(s))

Min2(a, b) == IF a < b THEN a ELSE b

\* list[:n] for n >= 0
Take(s, n) == SubSeq(s, 1, Min2(n, Len(s)))

\* list[1:n+1]: drop the first element, keep the next n
DropFirstTake(s, n) == SubSeq(s, 2, Min2(n + 1, Len(s)))

\* [x for x in s if P(x)], order kept
RECURSIVE Filter(_, _)
Filter(s, keep) ==
    IF s = <<>> THEN <<>>
    ELSE IF Head(s) \in keep THEN <<Head(s)>> \o Filter(Tail(s), keep)
         ELSE Filter(Tail(s), keep)

\* pandas Series.unique(): the values in order of first appearance
Unique(s) ==
    LET firsts == {k \in DOMAIN s : \A j \in 1..(k - 1) : s[j] # s[k]}
        at(p) == CHOOSE k \in firsts : Cardinality({j \in firsts : j < k}) = p - 1
    IN  [p \in 1..Cardinality(firsts) |-> s[at(p)]]

\* {value: idx for idx, value in enumerate(seq)} over a duplicate-free seq
Mapping(seq) == [x \in Range(seq) |-> CHOOSE k \in DOMAIN seq : seq[k] = x]

\* floor of the square root, for 0 <= x <= Scale * Scale
ISqrt(x) == CHOOSE r \in 0..Scale : r * r <= x /\ (r + 1) * (r + 1) > x

Dot(a, b) == SumSeq([k \in DOMAIN a |-> a[k] * b[k]])

\* sklearn cosine_similarity of two vectors: rows are L2-normalised first and a
\* zero row stays zero, so the similarity with a zero vector is 0.
Cosine(a, b) ==
    LET d  == Dot(a, b)
        na == Dot(a, a)
        nb == Dot(b, b)
    IN  IF na = 0 \/ nb = 0 THEN 0
        ELSE LET m == ISqrt((d * d * Scale * Scale) \div (na * nb))
             IN  IF d < 0 THEN 0 - m ELSE m

\* np.argsort(v)[::-1]: indices by descending value.  numpy's default sort is
\* not stable, so the order among equal values depends on the build: ties is
\* "stable" (ascending sort keeps index order) or "unstable" (it reverses it).
ArgsortDesc(v, ties) ==
    LET Before(j, i) ==
            \/ v[j] > v[i]
            \/ v[j] = v[i] /\ IF ties = "stable" THEN j > i ELSE j < i
        rank(i) == 1 + Cardinality({j \in DOMAIN v : Before(j, i)})
    IN  [p \in DOMAIN v |-> CHOOSE i \in DOMAIN v : rank(i) = p]

\* list.sort(key=lambda x: x.score, reverse=True): stable, descending
SortByScoreDesc(recs) ==
    LET Before(j, i) ==
            \/ recs[j].score > recs[i].score
            \/ recs[j].score = recs[i].score /\ j < i
        rank(i) == 1 + Cardinality({j \in DOMAIN recs : Before(j, i)})
    IN  [p \in DOMAIN recs |-> recs[CHOOSE i \in DOMAIN recs : rank(i) = p]]

(***************************************************************************)
(* Training snapshots.  An interaction row is a dict with user_id, item_id *)
(* and optionally interaction_value and rating (None when the key is       *)
(* missing).  An item record has id, category and the popularity_score of  *)
(* its content_features, and the row of the combined feature matrix that   *)
(* scikit-learn computes for it (features).                                *)
(***************************************************************************)
\* float('nan'): what a pandas row holds for a column another row introduced
NaN == 0 - 2

Row(u, i, v, r) == [user_id |-> u, item_id |-> i, interaction_value |-> v, rating |-> r]

\* the DataFrame has column f iff some dict of the list has the key
HasColumn(interactions, f) == \E k \in DOMAIN interactions : interactions[k][f] # None

\* row.get(f, default) on a row of pd.DataFrame(interactions)
RowGet(interactions, row, f, default) ==
    IF ~HasColumn(interactions, f) THEN default
    ELSE IF row[f] = None THEN NaN ELSE row[f]

\* Python truth value of row.get('rating'): None and 0.0 are false, nan is true
Truthy(x) == x # None /\ x # 0

\* value = row.get('interaction_value', 1.0); if row.get('rating'): value = row['rating']
CellValue(interactions, row) ==
    LET value  == RowGet(interactions, row, "interaction_value", 1)
        rating == RowGet(interactions, row, "rating", None)
    IN  IF Truthy(rating) THEN rating ELSE value

Count(rows, f, x) == Cardinality({k \in DOMAIN rows : rows[k][f] = x})

\* the filter with the item test left out
FilterInteractionsByUser(interactions, min_interactions) ==
    SelectSeq(interactions,
              LAMBDA row : Count(interactions, "user_id", row.user_id) >= min_interactions)

\* df[df['user_id'].isin(valid_users) & df['item_id'].isin(valid_items)]
FilterInteractions(interactions, min_interactions) ==
    SelectSeq(interactions,
              LAMBDA row : /\ Count(interactions, "user_id", row.user_id) >= min_interactions
                           /\ Count(interactions, "item_id", row.item_id) >= min_interactions)

Column(rows, f) == [k \in DOMAIN rows |-> rows[k][f]]

\* np.zeros((n_users, n_items)) filled row by row: the last row of a cell wins
BuildMatrix(interactions, df, unique_users, unique_items) ==
    [ui \in DOMAIN unique_users |->
        [ii \in DOMAIN unique_items |->
            LET hits == {k \in DOMAIN df : /\ df[k].user_id = unique_users[ui]
                                           /\ df[k].item_id = unique_items[ii]}
            IN  IF hits = {} THEN 0
                ELSE CellValue(interactions, df[CHOOSE k \in hits : \A j \in hits : j <= k])]]

HasNaN(matrix) == \E a \in DOMAIN matrix : \E b \in DOMAIN matrix[a] : matrix[a][b] = NaN

MatrixColumn(matrix, ii) == [ui \in DOMAIN matrix |-> matrix[ui][ii]]

\* cosine_similarity(matrix): all pairs of rows
RowSimilarity(matrix) ==
    [a \in DOMAIN matrix |-> [b \in DOMAIN matrix |-> Cosine(matrix[a], matrix[b])]]

\* cosine_similarity(matrix.T): all pairs of columns
ColumnSimilarity(matrix, n_items) ==
    [a \in 1..n_items |-> [b \in 1..n_items |->
        Cosine(MatrixColumn(matrix, a), MatrixColumn(matrix, b))]]

(***************************************************************************)
(* UserBasedCollaborativeFiltering                                         *)
(***************************************************************************)
k_neighbors == 50
min_interactions == 5

\* how train() ends: df['user_id'] on the DataFrame of an empty list, the
\* ValueError of train, the ValueError of cosine_similarity
NoError == "none"
KeyError == "KeyError: 'user_id'"
NotEnoughData == "ValueError: Not enough interaction data for training"
InputContainsNaN == "ValueError: Input contains NaN"

\* UserBasedCollaborativeFiltering(min_interactions=m)
UserCFNew(m) ==
    [is_trained |-> FALSE, min_interactions |-> m,
     user_mapping |-> <<>>, item_mapping |-> <<>>,
     reverse_user_mapping |-> <<>>, reverse_item_mapping |-> <<>>,
     user_item_matrix |-> <<>>, user_similarity_matrix |-> <<>>]

UserCFInit == UserCFNew(min_interactions)

\* train() up to its await of cache_manager.set_similarity_matrix.  raised is
\* TRUE when the code raises (an empty list has no 'user_id' column; no row
\* survives the filter; cosine_similarity rejects a matrix holding nan), error
\* is the exception and self is the engine as the exception leaves it.
UserCFTrainBuild(self, interactions) ==
    LET df == FilterInteractions(interactions, self.min_interactions)
        unique_users == Unique(Column(df, "user_id"))
        unique_items == Unique(Column(df, "item_id"))
        matrix == BuildMatrix(interactions, df, unique_users, unique_items)
        mapped == [self EXCEPT !.user_mapping = Mapping(unique_users),
                               !.item_mapping = Mapping(unique_items),
                               !.reverse_user_mapping = unique_users,
                               !.reverse_item_mapping = unique_items,
                               !.user_item_matrix = matrix]
    IN  IF interactions = <<>>
        THEN [raised |-> TRUE, error |-> KeyError, self |-> self]
        ELSE IF df = <<>>
        THEN [raised |-> TRUE, error |-> NotEnoughData, self |-> self]
        ELSE IF HasNaN(matrix)
        THEN [raised |-> TRUE, error |-> InputContainsNaN, self |-> mapped]
        ELSE [raised |-> FALSE, error |-> NoError,
              self |-> [mapped EXCEPT !.user_similarity_matrix = RowSimilarity(matrix)]]

\* the rest of train() after the await: self.is_trained = True
TrainFinish(self) == [self EXCEPT !.is_trained = TRUE]

Rec(item_id, score) == [item_id |-> item_id, score |-> score]

\* _cold_start_recommend of both collaborative engines: column sums, most
\* popular first, score = popularity / len(user_mapping)
CFColdStartRecommend(self, context, ties) ==
    LET n_items == Len(self.reverse_item_mapping)
        item_popularity == [ii \in 1..n_items |-> SumSeq(MatrixColumn(self.user_item_matrix, ii))]
        popular_items_idx == ArgsortDesc(item_popularity, ties)
        top == Take(popular_items_idx, context.num_recommendations)
    IN  [p \in DOMAIN top |->
            Rec(self.reverse_item_mapping[top[p]],
                (item_popularity[top[p]] * Scale) \div Len(self.reverse_user_mapping))]

\* the dict of accumulated scores as a list in insertion order: an item enters
\* when the first neighbour (in the given order) contributes to it, and within
\* one neighbour items enter by ascending index
AccumulateInOrder(neighbours, n_items, Contributes(_, _), Term(_, _)) ==
    LET hit(ii) == {p \in DOMAIN neighbours : Contributes(neighbours[p], ii)}
        first(ii) == CHOOSE p \in hit(ii) : \A q \in hit(ii) : p <= q
        cand == {ii \in 1..n_items : hit(ii) # {}}
        Before(j, i) == first(j) < first(i) \/ (first(j) = first(i) /\ j < i)
        rank(i) == 1 + Cardinality({j \in cand : Before(j, i)})
        order == [p \in 1..Cardinality(cand) |-> CHOOSE i \in cand : rank(i) = p]
    IN  [p \in DOMAIN order |->
            [idx |-> order[p],
             score |-> SumSeq([q \in DOMAIN neighbours |->
                                 IF Contributes(neighbours[q], order[p])
                                 THEN Term(neighbours[q], order[p]) ELSE 0])]]

UserCFRecommend(self, context, ties) ==
    IF ~self.is_trained THEN <<>>
    ELSE IF context.user_id \notin DOMAIN self.user_mapping
    THEN CFColdStartRecommend(self, context, ties)
    ELSE
    LET user_idx == self.user_mapping[context.user_id]
        user_vector == self.user_item_matrix[user_idx]
        user_similarities == self.user_similarity_matrix[user_idx]
        similar_user_indices == DropFirstTake(ArgsortDesc(user_similarities, ties), k_neighbors)
        Contributes(su, ii) == self.user_item_matrix[su][ii] > 0 /\ user_vector[ii] = 0
        Term(su, ii) == user_similarities[su] * self.user_item_matrix[su][ii]
        acc == AccumulateInOrder(similar_user_indices, Len(user_vector), Contributes, Term)
        rec_items == [p \in DOMAIN acc |-> Rec(self.reverse_item_mapping[acc[p].idx], acc[p].score)]
    IN  Take(SortByScoreDesc(rec_items), context.num_recommendations)

\* UserBasedCollaborativeFiltering.get_item_similarity: every other column
UserCFGetItemSimilarity(self, item_id, top_k) ==
    IF ~self.is_trained \/ item_id \notin DOMAIN self.item_mapping THEN <<>>
    ELSE
    LET item_idx == self.item_mapping[item_id]
        n_items == Len(self.reverse_item_mapping)
        others == SelectSeq([ii \in 1..n_items |-> ii], LAMBDA ii : ii # item_idx)
        similarities ==
            [p \in DOMAIN others |->
                Rec(self.reverse_item_mapping[others[p]],
                    Cosine(MatrixColumn(self.user_item_matrix, item_idx),
                           MatrixColumn(self.user_item_matrix, others[p])))]
    IN  Take(SortByScoreDesc(similarities), top_k)

(***************************************************************************)
(* ItemBasedCollaborativeFiltering                                         *)
(***************************************************************************)
\* ItemBasedCollaborativeFiltering(min_interactions=m)
ItemCFNew(m) ==
    [is_trained |-> FALSE, min_interactions |-> m,
     user_mapping |-> <<>>, item_mapping |-> <<>>,
     reverse_user_mapping |-> <<>>, reverse_item_mapping |-> <<>>,
     user_item_matrix |-> <<>>, item_similarity_matrix |-> <<>>]

ItemCFInit == ItemCFNew(min_interactions)

\* train() up to its await of cache_manager.set_similarity_matrix
ItemCFTrainBuild(self, interactions) ==
    LET df == FilterInteractions(interactions, self.min_interactions)
        unique_users == Unique(Column(df, "user_id"))
        unique_items == Unique(Column(df, "item_id"))
        matrix == BuildMatrix(interactions, df, unique_users, unique_items)
        mapped == [self EXCEPT !.user_mapping = Mapping(unique_users),
                               !.item_mapping = Mapping(unique_items),
                               !.reverse_user_mapping = unique_users,
                               !.reverse_item_mapping = unique_items,
                               !.user_item_matrix = matrix]
    IN  IF interactions = <<>>
        THEN [raised |-> TRUE, error |-> KeyError, self |-> self]
        ELSE IF df = <<>>
        THEN [raised |-> TRUE, error |-> NotEnoughData, self |-> self]
        ELSE IF HasNaN(matrix)
        THEN [raised |-> TRUE, error |-> InputContainsNaN, self |-> mapped]
        ELSE [raised |-> FALSE, error |-> NoError,
              self |-> [mapped EXCEPT !.item_similarity_matrix =
                                          ColumnSimilarity(matrix, Len(unique_items))]]

ItemCFRecommend(self, context, ties) ==
    IF ~self.is_trained THEN <<>>
    ELSE IF context.user_id \notin DOMAIN self.user_mapping
    THEN CFColdStartRecommend(self, context, ties)
    ELSE
    LET user_idx == self.user_mapping[context.user_id]
        user_vector == self.user_item_matrix[user_idx]
        user_items == SelectSeq([ii \in DOMAIN user_vector |-> ii],
                                LAMBDA ii : user_vector[ii] > 0)
        similar_items(ui) ==
            DropFirstTake(ArgsortDesc(self.item_similarity_matrix[ui], ties), k_neighbors)
        Contributes(ui, ii) == ii \in Range(similar_items(ui)) /\ ~(user_vector[ii] > 0)
        Term(ui, ii) == self.item_similarity_matrix[ui][ii] * user_vector[ui]
        \* within one user item the similar items enter in similarity order
        hit(ii) == {p \in DOMAIN user_items : Contributes(user_items[p], ii)}
        first(ii) == CHOOSE p \in hit(ii) : \A q \in hit(ii) : p <= q
        pos(ii) == CHOOSE q \in DOMAIN similar_items(user_items[first(ii)]) :
                       similar_items(user_items[first(ii)])[q] = ii
        cand == {ii \in DOMAIN user_vector : hit(ii) # {}}
        Before(j, i) == first(j) < first(i) \/ (first(j) = first(i) /\ pos(j) < pos(i))
        rank(i) == 1 + Cardinality({j \in cand : Before(j, i)})
        order == [p \in 1..Cardinality(cand) |-> CHOOSE i \in cand : rank(i) = p]
        rec_items ==
            [p \in DOMAIN order |->
                Rec(self.reverse_item_mapping[order[p]],
                    SumSeq([q \in DOMAIN user_items |->
                              IF Contributes(user_items[q], order[p])
                              THEN Term(user_items[q], order[p]) ELSE 0]))]
    IN  IF user_items = <<>> THEN CFColdStartRecommend(self, context, ties)
        ELSE Take(SortByScoreDesc(rec_items), context.num_recommendations)

\* ItemBasedCollaborativeFiltering.get_item_similarity:
\* np.argsort(similarities)[::-1][1:top_k + 1], "excluding self" by position
ItemCFGetItemSimilarity(self, item_id, top_k, ties) ==
    IF ~self.is_trained \/ item_id \notin DOMAIN self.item_mapping THEN <<>>
    ELSE
    LET item_idx == self.item_mapping[item_id]
        similarities == self.item_similarity_matrix[item_idx]
        similar_items_idx == DropFirstTake(ArgsortDesc(similarities, ties), top_k)
    IN  [p \in DOMAIN similar_items_idx |->
            Rec(self.reverse_item_mapping[similar_items_idx[p]],
                similarities[similar_items_idx[p]])]

(***************************************************************************)
(* ContentBasedRecommendationEngine.  The TF-IDF, one-hot and scaled       *)
(* numeric blocks are computed by scikit-learn; the model takes the        *)
(* combined row of an item as given with the item (features).  A user      *)
(* profile, np.average(rows, weights), is kept as the exact quotient       *)
(* sum / total.                                                            *)
(***************************************************************************)
ItemRecord(id, category, popularity_score, features) ==
    [id |-> id, category |-> category, popularity_score |-> popularity_score,
     features |-> features]

ContentInit ==
    [is_trained |-> FALSE,
     item_mapping |-> <<>>, reverse_item_mapping |-> <<>>,
     item_features |-> <<>>,
     combined_features_matrix |-> <<>>,
     user_profiles |-> <<>>]

\* self.item_features[item['id']] = {...}: a dict keeps the position of a key
\* it already holds and appends a new key; nothing is ever removed
RECURSIVE StoreItemFeatures(_, _)
StoreItemFeatures(item_features, items) ==
    IF items = <<>> THEN item_features
    ELSE LET item == Head(items)
             entry == [id |-> item.id, category |-> item.category,
                       popularity_score |-> item.popularity_score]
             at == {k \in DOMAIN item_features : item_features[k].id = item.id}
             stored == IF at = {} THEN Append(item_features, entry)
                       ELSE [item_features EXCEPT ![CHOOSE k \in at : TRUE] = entry]
         IN  StoreItemFeatures(stored, Tail(items))

ItemFeaturesOf(self, item_id) ==
    self.item_features[CHOOSE k \in DOMAIN self.item_features :
                           self.item_features[k].id = item_id]

\* weight = interaction.get('interaction_value', 1.0)
\* if 'rating' in interaction: weight = interaction['rating']
ProfileWeight(interactions, row) ==
    IF HasColumn(interactions, "rating")
    THEN RowGet(interactions, row, "rating", None)
    ELSE RowGet(interactions, row, "interaction_value", 1)

VecAdd(a, b) == [k \in DOMAIN a |-> a[k] + b[k]]
VecScale(c, a) == [k \in DOMAIN a |-> c * a[k]]

RECURSIVE WeightedSum(_, _, _)
WeightedSum(rows, weights, zero) ==
    IF rows = <<>> THEN zero
    ELSE VecAdd(VecScale(Head(weights), Head(rows)),
                WeightedSum(Tail(rows), Tail(weights), zero))

\* _build_user_profiles for one user: the rows of the user whose item is in
\* item_mapping; no profile when there is none
UserRows(self_item_mapping, interactions, user_id) ==
    SelectSeq(interactions,
              LAMBDA row : row.user_id = user_id /\ row.item_id \in DOMAIN self_item_mapping)

\* np.average raises ZeroDivisionError when the weights sum to zero
ProfileRaises(self_item_mapping, interactions) ==
    \E u \in Range(Column(interactions, "user_id")) :
        LET rows == UserRows(self_item_mapping, interactions, u)
        IN  /\ rows # <<>>
            /\ SumSeq([k \in DOMAIN rows |-> ProfileWeight(interactions, rows[k])]) = 0

\* self.user_profiles[user_id] = user_profile for every user with such rows;
\* the profiles of other users stay as they were
BuildUserProfiles(user_profiles, item_mapping, matrix, interactions) ==
    LET users == Range(Column(interactions, "user_id"))
        built == {u \in users : UserRows(item_mapping, interactions, u) # <<>>}
        profile(u) ==
            LET rows == UserRows(item_mapping, interactions, u)
                weights == [k \in DOMAIN rows |-> ProfileWeight(interactions, rows[k])]
                feats == [k \in DOMAIN rows |-> matrix[item_mapping[rows[k].item_id]]]
                zero == [d \in DOMAIN feats[1] |-> 0]
            IN  [sum |-> WeightedSum(feats, weights, zero), total |-> SumSeq(weights)]
    IN  [u \in (DOMAIN user_profiles) \cup built |->
            IF u \in built THEN profile(u) ELSE user_profiles[u]]

\* ContentBasedRecommendationEngine.train: raises on an empty item list before
\* it changes anything, and on weights summing to zero after the mappings,
\* the stored item features and the feature matrix are replaced
ContentTrain(self, interactions, items) ==
    LET ids == Column(items, "id")
        item_mapping == [x \in Range(ids) |->
                            CHOOSE k \in DOMAIN ids : ids[k] = x /\ \A j \in DOMAIN ids :
                                                         ids[j] = x => j <= k]
        matrix == Column(items, "features")
        mapped == [self EXCEPT !.item_mapping = item_mapping,
                               !.reverse_item_mapping = ids,
                               !.item_features = StoreItemFeatures(self.item_features, items),
                               !.combined_features_matrix = matrix]
    IN  IF items = <<>> THEN [raised |-> TRUE, self |-> self]
        ELSE IF interactions = <<>> \/ ProfileRaises(item_mapping, interactions)
        THEN [raised |-> TRUE, self |-> mapped]
        ELSE [raised |-> FALSE,
              self |-> [mapped EXCEPT
                          !.user_profiles = BuildUserProfiles(self.user_profiles, item_mapping,
                                                              matrix, interactions),
                          !.is_trained = TRUE]]

\* popularity = features.get('content_features', {}).get('popularity_score', 0.0)
Popularity(entry) == IF entry.popularity_score = None THEN 0 ELSE entry.popularity_score

\* _cold_start_recommend: every stored item by popularity, no filter applied
ContentColdStartRecommend(self, context) ==
    LET popular_items == [k \in DOMAIN self.item_features |->
                             Rec(self.item_features[k].id,
                                 Popularity(self.item_features[k]) * Scale)]
    IN  Take(SortByScoreDesc(popular_items), context.num_recommendations)

\* the category and exclude filters of recommend()
ContentKeeps(self, context, item_id) ==
    LET category == ItemFeaturesOf(self, item_id).category
    IN  /\ ~(context.exclude_items # {} /\ item_id \in context.exclude_items)
        /\ ~(context.include_categories # {} /\ category \notin context.include_categories)
        /\ ~(context.exclude_categories # {} /\ category \in context.exclude_categories)

ContentRecommend(self, context) ==
    IF ~self.is_trained THEN <<>>
    ELSE IF context.user_id \notin DOMAIN self.user_profiles
    THEN ContentColdStartRecommend(self, context)
    ELSE
    LET user_profile == self.user_profiles[context.user_id]
        kept == SelectSeq([k \in DOMAIN self.combined_features_matrix |-> k],
                          LAMBDA k : ContentKeeps(self, context, self.reverse_item_mapping[k]))
        recommendations ==
            [p \in DOMAIN kept |->
                Rec(self.reverse_item_mapping[kept[p]],
                    Cosine(user_profile.sum, self.combined_features_matrix[kept[p]]))]
    IN  Take(SortByScoreDesc(recommendations), context.num_recommendations)

ContentGetItemSimilarity(self, item_id, top_k) ==
    IF ~self.is_trained \/ item_id \notin DOMAIN self.item_mapping THEN <<>>
    ELSE
    LET item_idx == self.item_mapping[item_id]
        others == SelectSeq([k \in DOMAIN self.combined_features_matrix |-> k],
                            LAMBDA k : k # item_idx)
        similar_items ==
            [p \in DOMAIN others |->
                Rec(self.reverse_item_mapping[others[p]],
                    Cosine(self.combined_features_matrix[item_idx],
                           self.combined_features_matrix[others[p]]))]
    IN  Take(SortByScoreDesc(similar_items), top_k)

(***************************************************************************)
(* SVDRecommendationEngine.  The factors are learned by the surprise       *)
(* library (SGD, random_state=42): a deterministic function of the         *)
(* trainset that the model does not compute.  A prediction is taken to be  *)
(* the global mean of the trainset, which lies in the rating scale that    *)
(* surprise clips every estimate to; the factor vector of an item is taken *)
(* to be its vector of ratings.                                            *)
(***************************************************************************)
SVDInit ==
    [is_trained |-> FALSE,
     user_mapping |-> <<>>, item_mapping |-> <<>>,
     reverse_user_mapping |-> <<>>, reverse_item_mapping |-> <<>>,
     trainset |-> <<>>]

\* df['rating']: the rating column if there is one, else interaction_value, else 1.0
SVDRating(interactions, row) ==
    IF HasColumn(interactions, "rating") THEN RowGet(interactions, row, "rating", None)
    ELSE RowGet(interactions, row, "interaction_value", 1)

\* train(): mappings over all rows (no minimum), the trainset of
\* (user_idx, item_idx, rating) triples, the fitted model
SVDTrain(self, interactions) ==
    LET unique_users == Unique(Column(interactions, "user_id"))
        unique_items == Unique(Column(interactions, "item_id"))
        user_mapping == Mapping(unique_users)
        item_mapping == Mapping(unique_items)
    IN  IF interactions = <<>> THEN [raised |-> TRUE, self |-> self]
        ELSE [raised |-> FALSE,
              self |-> [is_trained |-> TRUE,
                        user_mapping |-> user_mapping,
                        item_mapping |-> item_mapping,
                        reverse_user_mapping |-> unique_users,
                        reverse_item_mapping |-> unique_items,
                        trainset |-> [k \in DOMAIN interactions |->
                                        [user_idx |-> user_mapping[interactions[k].user_id],
                                         item_idx |-> item_mapping[interactions[k].item_id],
                                         rating |-> SVDRating(interactions, interactions[k])]]]]

\* trainset.ur[user_idx]: the items the user rated
TrainsetUserItems(trainset, user_idx) ==
    {trainset[k].item_idx : k \in {j \in DOMAIN trainset : trainset[j].user_idx = user_idx}}

\* trainset.ir[item_idx]: the ratings of the item
TrainsetItemRatings(trainset, item_idx) ==
    LET rows == SelectSeq(trainset, LAMBDA t : t.item_idx = item_idx)
    IN  [k \in DOMAIN rows |-> rows[k].rating]

\* model.predict(user_idx, item_idx).est
SVDPredict(self, user_idx, item_idx) ==
    (SumSeq(Column(self.trainset, "rating")) * Scale) \div Len(self.trainset)

\* np.log(1 + n) * Scale for the row counts the snapshots reach
Log1p(n) ==
    LET table == <<69, 109, 138, 160, 179, 194, 207, 219, 230, 239,
                   248, 256, 263, 270, 277, 283, 289, 294, 299, 304>>
    IN  IF n \in DOMAIN table THEN table[n] ELSE 304 + n

\* _cold_start_recommend: avg_rating * log(1 + num_ratings), most popular first
SVDColdStartRecommend(self, context) ==
    LET popularity(ii) ==
            LET ratings == TrainsetItemRatings(self.trainset, ii)
            IN  (((SumSeq(ratings) * Scale) \div Len(ratings)) * Log1p(Len(ratings))) \div Scale
        item_popularity == [ii \in DOMAIN self.reverse_item_mapping |->
                               Rec(self.reverse_item_mapping[ii], popularity(ii))]
    IN  Take(SortByScoreDesc(item_popularity), context.num_recommendations)

SVDRecommend(self, context) ==
    IF ~self.is_trained THEN <<>>
    ELSE IF context.user_id \notin DOMAIN self.user_mapping
    THEN SVDColdStartRecommend(self, context)
    ELSE
    LET user_idx == self.user_mapping[context.user_id]
        unseen == SelectSeq([ii \in DOMAIN self.reverse_item_mapping |-> ii],
                            LAMBDA ii : ii \notin TrainsetUserItems(self.trainset, user_idx))
        recommendations == [p \in DOMAIN unseen |->
                               Rec(self.reverse_item_mapping[unseen[p]],
                                   SVDPredict(self, user_idx, unseen[p]))]
    IN  Take(SortByScoreDesc(recommendations), context.num_recommendations)

\* model.qi[item_idx], see above
ItemFactors(self, item_idx) ==
    [ui \in DOMAIN self.reverse_user_mapping |->
        SumSeq(TrainsetItemRatings(SelectSeq(self.trainset, LAMBDA t : t.user_idx = ui),
                                   item_idx))]

SVDGetItemSimilarity(self, item_id, top_k) ==
    IF ~self.is_trained \/ item_id \notin DOMAIN self.item_mapping THEN <<>>
    ELSE
    LET item_idx == self.item_mapping[item_id]
        others == SelectSeq([ii \in DOMAIN self.reverse_item_mapping |-> ii],
                            LAMBDA ii : self.reverse_item_mapping[ii] # item_id)
        similarities ==
            [p \in DOMAIN others |->
                Rec(self.reverse_item_mapping[others[p]],
                    Cosine(ItemFactors(self, item_idx), ItemFactors(self, others[p])))]
    IN  Take(SortByScoreDesc(similarities), top_k)

(***************************************************************************)
(* WeightedHybridRecommendationEngine                                      *)
(***************************************************************************)
\* the constructor's defaults, in hundredths
collaborative_weight == 40
content_weight == 30
matrix_factorization_weight == 30

HybridInit ==
    [is_trained |-> FALSE,
     adaptive_weights |-> TRUE,
     user_cf |-> UserCFInit,
     item_cf |-> ItemCFInit,
     content_based |-> ContentInit,
     matrix_factorization |-> SVDInit]

Weights(cf, content, mf) ==
    [collaborative |-> cf, content |-> content, matrix_factorization |-> mf]

SumWeights(w) == w.collaborative + w.content + w.matrix_factorization

Hundredths(n) == (n * WeightUnit) \div 100

\* the base weights of the sub-scorers that have data, left as configured
KeepBaseWeights(weights) ==
    Weights(Hundredths(weights.collaborative), Hundredths(weights.content),
            Hundredths(weights.matrix_factorization))

\* weights[key] /= total_weight, when total_weight > 0
Redistribute(weights) ==
    LET total_weight == SumWeights(weights)
    IN  IF total_weight > 0
        THEN Weights((weights.collaborative * WeightUnit) \div total_weight,
                     (weights.content * WeightUnit) \div total_weight,
                     (weights.matrix_factorization * WeightUnit) \div total_weight)
        ELSE Weights(0, 0, 0)

\* _calculate_adaptive_weights without the pure cold-start branch: a user no
\* sub-scorer knows gets three zero weights
AdaptiveWeightsWithoutColdStart(adaptive_weights, has_cf_data, has_content_data, has_mf_data) ==
    IF ~adaptive_weights
    THEN Weights(Hundredths(collaborative_weight), Hundredths(content_weight),
                 Hundredths(matrix_factorization_weight))
    ELSE Redistribute(Weights(IF has_cf_data THEN collaborative_weight ELSE 0,
                              IF has_content_data THEN content_weight ELSE 0,
                              IF has_mf_data THEN matrix_factorization_weight ELSE 0))

\* the weights for given availability of user data in the three sub-scorers
AdaptiveWeights(adaptive_weights, has_cf_data, has_content_data, has_mf_data) ==
    IF ~adaptive_weights
    THEN Weights(Hundredths(collaborative_weight), Hundredths(content_weight),
                 Hundredths(matrix_factorization_weight))
    ELSE IF ~has_cf_data /\ ~has_content_data /\ ~has_mf_data
    THEN Weights(Hundredths(33), Hundredths(33), Hundredths(34))
    ELSE Redistribute(Weights(IF has_cf_data THEN collaborative_weight ELSE 0,
                              IF has_content_data THEN content_weight ELSE 0,
                              IF has_mf_data THEN matrix_factorization_weight ELSE 0))

HasCFData(self, user_id) == user_id \in DOMAIN self.user_cf.user_mapping
HasContentData(self, user_id) == user_id \in DOMAIN self.content_based.user_profiles
HasMFData(self, user_id) == user_id \in DOMAIN self.matrix_factorization.user_mapping

\* _calculate_adaptive_weights(user_id)
CalculateAdaptiveWeights(self, user_id) ==
    AdaptiveWeights(self.adaptive_weights, HasCFData(self, user_id),
                    HasContentData(self, user_id), HasMFData(self, user_id))

\* _merge_recommendations: all_recommendations is a dict in insertion order
RECURSIVE MergeRecommendations(_, _, _, _)
MergeRecommendations(all_recommendations, recommendations, weight, method) ==
    IF recommendations = <<>> THEN all_recommendations
    ELSE LET rec == Head(recommendations)
             at == {k \in DOMAIN all_recommendations :
                        all_recommendations[k].item_id = rec.item_id}
             with == IF at = {}
                     THEN Append(all_recommendations,
                                 [item_id |-> rec.item_id, score |-> 0, methods |-> <<>>])
                     ELSE all_recommendations
             k == CHOOSE j \in DOMAIN with : with[j].item_id = rec.item_id
             merged == [with EXCEPT ![k].score = @ + rec.score * weight,
                                    ![k].methods = Append(@, method)]
         IN  MergeRecommendations(merged, Tail(recommendations), weight, method)

\* recommend() consulting every sub-scorer whatever its weight
HybridCallsWhateverWeight(self, context, fails, ties) ==
    LET weights == CalculateAdaptiveWeights(self, context.user_id)
        call(name, method, weight, recs) ==
            [name |-> name, method |-> method, weight |-> weight,
             raised |-> name \in fails, recs |-> IF name \in fails THEN <<>> ELSE recs]
    IN  <<call("user_cf", "collaborative_filtering", weights.collaborative,
               UserCFRecommend(self.user_cf, context, ties))>>
        \o (IF "user_cf" \in fails
            THEN <<call("item_cf", "collaborative_filtering", weights.collaborative,
                        ItemCFRecommend(self.item_cf, context, ties))>>
            ELSE <<>>)
        \o <<call("content_based", "content_based", weights.content,
                  ContentRecommend(self.content_based, context)),
             call("matrix_factorization", "matrix_factorization", weights.matrix_factorization,
                  SVDRecommend(self.matrix_factorization, context))>>

\* The sub-scorers recommend() consults, in call order, with the outcome of
\* each call: fails is the set of sub-scorers whose recommend() raises in this
\* call.  item_cf is called only when user_cf raised.
HybridCalls(self, context, fails, ties) ==
    LET weights == CalculateAdaptiveWeights(self, context.user_id)
        call(name, method, weight, recs) ==
            [name |-> name, method |-> method, weight |-> weight,
             raised |-> name \in fails, recs |-> IF name \in fails THEN <<>> ELSE recs]
        cf == IF weights.collaborative > 0
              THEN <<call("user_cf", "collaborative_filtering", weights.collaborative,
                          UserCFRecommend(self.user_cf, context, ties))>>
                   \o (IF "user_cf" \in fails
                       THEN <<call("item_cf", "collaborative_filtering", weights.collaborative,
                                   ItemCFRecommend(self.item_cf, context, ties))>>
                       ELSE <<>>)
              ELSE <<>>
        cb == IF weights.content > 0
              THEN <<call("content_based", "content_based", weights.content,
                          ContentRecommend(self.content_based, context))>>
              ELSE <<>>
        mf == IF weights.matrix_factorization > 0
              THEN <<call("matrix_factorization", "matrix_factorization",
                          weights.matrix_factorization,
                          SVDRecommend(self.matrix_factorization, context))>>
              ELSE <<>>
    IN  cf \o cb \o mf

RECURSIVE MergeCalls(_, _)
MergeCalls(all_recommendations, calls) ==
    IF calls = <<>> THEN all_recommendations
    ELSE MergeCalls(IF Head(calls).raised THEN all_recommendations
                    ELSE MergeRecommendations(all_recommendations, Head(calls).recs,
                                              Head(calls).weight, Head(calls).method),
                    Tail(calls))

\* recommend() returning the whole sorted merge
HybridRecommendUnsliced(self, context, fails, ties) ==
    IF ~self.is_trained THEN <<>>
    ELSE SortByScoreDesc(MergeCalls(<<>>, HybridCalls(self, context, fails, ties)))

\* recommend() cutting the merge to num_recommendations before it sorts
HybridRecommendCutFirst(self, context, fails, ties) ==
    IF ~self.is_trained THEN <<>>
    ELSE LET all_recommendations == MergeCalls(<<>>, HybridCalls(self, context, fails, ties))
         IN  SortByScoreDesc(Take(all_recommendations, context.num_recommendations))

\* WeightedHybridRecommendationEngine.recommend
HybridRecommend(self, context, fails, ties) ==
    IF ~self.is_trained THEN <<>>
    ELSE LET all_recommendations == MergeCalls(<<>>, HybridCalls(self, context, fails, ties))
         IN  Take(SortByScoreDesc(all_recommendations), context.num_recommendations)

\* WeightedHybridRecommendationEngine.get_item_similarity: the first sub-scorer
\* that does not raise answers, and none of them raises
HybridGetItemSimilarity(self, item_id, top_k) ==
    ContentGetItemSimilarity(self.content_based, item_id, top_k)

\* train() between two suspensions.  Each segment returns the engine it leaves
\* and whether it raised.  Segment 1 runs user_cf.train up to its await.
TrainSegment1(self, snapshot) ==
    LET r == UserCFTrainBuild(self.user_cf, snapshot.interactions)
    IN  [raised |-> r.raised, self |-> [self EXCEPT !.user_cf = r.self]]

\* Segment 2: user_cf.train returns, item_cf.train runs up to its await.
TrainSegment2(self, snapshot) ==
    LET r == ItemCFTrainBuild(self.item_cf, snapshot.interactions)
    IN  [raised |-> r.raised,
         self |-> [self EXCEPT !.user_cf = TrainFinish(self.user_cf), !.item_cf = r.self]]

\* Segment 3: item_cf.train returns; content_based.train and
\* matrix_factorization.train never suspend; self.is_trained = True.
TrainSegment3(self, snapshot) ==
    LET c == ContentTrain(self.content_based, snapshot.interactions, snapshot.items)
        m == SVDTrain(self.matrix_factorization, snapshot.interactions)
        after_item == [self EXCEPT !.item_cf = TrainFinish(self.item_cf)]
        after_content == [after_item EXCEPT !.content_based = c.self]
    IN  IF c.raised THEN [raised |-> TRUE, self |-> after_content]
        ELSE IF m.raised THEN [raised |-> TRUE, self |-> after_content]
        ELSE [raised |-> FALSE,
              self |-> [after_content EXCEPT !.matrix_factorization = m.self,
                                             !.is_trained = TRUE]]

\* WeightedHybridRecommendationEngine.train run to its end with no other task
\* scheduled in between
HybridTrain(self, snapshot) ==
    LET r1 == TrainSegment1(self, snapshot)
        r2 == TrainSegment2(r1.self, snapshot)
    IN  IF r1.raised THEN r1
        ELSE IF r2.raised THEN r2
        ELSE TrainSegment3(r2.self, snapshot)

(***************************************************************************)
(* Snapshots the specifications train on                                   *)
(***************************************************************************)
\* n rows for one (user, item) cell
Copies(n, row) == [k \in 1..n |-> row]

RowCopies == 5

ValueRow(u, i, v) == Row(u, i, v, None)
RatingRow(u, i, r) == Row(u, i, None, r)

Catalog ==
    <<ItemRecord("i1", "action", 3, <<2, 0>>),
      ItemRecord("i2", "action", 1, <<1, 1>>),
      ItemRecord("i3", "comedy", 2, <<0, 2>>)>>

\* two warm users; u1 has not seen i2 and i3
SnapshotA ==
    [interactions |-> Copies(RowCopies, ValueRow("u1", "i1", 2))
                      \o Copies(RowCopies, ValueRow("u2", "i1", 1))
                      \o Copies(RowCopies, ValueRow("u2", "i2", 2))
                      \o Copies(RowCopies, ValueRow("u2", "i3", 1)),
     items |-> Catalog]

\* ratings; i1 and i2 have identical columns; u2 and u3 are below the
\* collaborative minimum and i3 is not in the catalog
SnapshotB ==
    [interactions |-> Copies(RowCopies, RatingRow("u1", "i1", 1))
                      \o Copies(RowCopies, RatingRow("u1", "i2", 1))
                      \o <<RatingRow("u2", "i1", 2), RatingRow("u3", "i3", 2)>>,
     items |-> SubSeq(Catalog, 1, 2)]

\* too few rows for the collaborative scorers
SnapshotC ==
    [interactions |-> <<ValueRow("u1", "i1", 1), ValueRow("u2", "i2", 1)>>,
     items |-> Catalog]

\* the rows of SnapshotA with an empty catalog
SnapshotD ==
    [interactions |-> SnapshotA.interactions, items |-> <<>>]

Snapshots == {SnapshotA, SnapshotB, SnapshotC, SnapshotD}

(***************************************************************************)
(* Cache layer: redis_client and cache_manager                             *)
(***************************************************************************)
recommendation_ttl == 1800
user_data_ttl == 7200
similarity_ttl == 86400

Algorithms == {"hybrid"}

\* _generate_cache_key("rec", user_id, algorithm, num_items): the parts joined
\* with "|", kept here as the tuple of the parts
RecKey(user_id, algorithm, num_items) == <<"rec", user_id, algorithm, num_items>>
\* f"user:{user_id}"
UserKey(user_id) == <<"user", user_id>>
\* f"item:{item_id}"
ItemKey(item_id) == <<"item", item_id>>
\* f"similarity:{matrix_type}:{algorithm}"
SimilarityKey(matrix_type, algorithm) == <<"similarity", matrix_type, algorithm>>

\* a key redis does not hold
NoEntry == [value |-> <<>>, expires |-> 0]

\* redis_client.get: None when the client is not connected or the key is
\* absent or expired, the deserialized value otherwise
RedisGet(store, time, is_connected, key) ==
    IF is_connected /\ time < store[key].expires
    THEN [found |-> TRUE, value |-> store[key].value]
    ELSE [found |-> FALSE, value |-> <<>>]

\* redis_client.set(key, value, expire)
RedisSet(store, time, is_connected, key, value, expire) ==
    IF is_connected
    THEN [store EXCEPT ![key] = [value |-> value, expires |-> time + expire]]
    ELSE store

\* redis_client.delete(key)
RedisDelete(store, is_connected, key) ==
    IF is_connected THEN [store EXCEPT ![key] = NoEntry] ELSE store

\* cache_manager.get_recommendations / set_recommendations
GetRecommendations(store, time, is_connected, user_id, algorithm, num_items) ==
    RedisGet(store, time, is_connected, RecKey(user_id, algorithm, num_items))

SetRecommendations(store, time, is_connected, user_id, algorithm, recommendations, num_items) ==
    RedisSet(store, time, is_connected, RecKey(user_id, algorithm, num_items),
             recommendations, recommendation_ttl)

\* cache_manager.set_similarity_matrix
SetSimilarityMatrix(store, time, is_connected, matrix_type, algorithm, matrix_data) ==
    RedisSet(store, time, is_connected, SimilarityKey(matrix_type, algorithm),
             matrix_data, similarity_ttl)

\* cache_manager.invalidate_user_cache: of the three patterns only the one
\* without "*" is deleted
InvalidateUserCache(store, is_connected, user_id) ==
    RedisDelete(store, is_connected, UserKey(user_id))

\* cache_manager.invalidate_item_cache
InvalidateItemCache(store, is_connected, item_id) ==
    RedisDelete(store, is_connected, ItemKey(item_id))

(***************************************************************************)
(* State                                                                   *)
(***************************************************************************)
VARIABLES
    engine,     \* one WeightedHybridRecommendationEngine instance
    ties,       \* the tie order of this build's np.argsort
    trains,     \* number of train() calls started
    call,       \* the last call on the engine and what it returned
    connected,  \* redis_client._connected
    tasks,      \* the train() coroutines on the event loop
    db,         \* the interactions and ratings tables
    cache,      \* what redis holds: key -> value and expiry time
    now,        \* seconds since the start
    last        \* the last resolver call and its response

vars == <<engine, ties, trains, call, connected, tasks, db, cache, now, last>>
TrainVars == <<connected, tasks>>
CacheVars == <<db, cache, now, last>>

MaxTrains == 2
MaxNum == 3
MaxTopK == 2

SubScorers == {"user_cf", "item_cf", "content_based", "matrix_factorization"}

Context(user_id, num_recommendations, exclude_items) ==
    [user_id |-> user_id, num_recommendations |-> num_recommendations,
     exclude_items |-> exclude_items,
     include_categories |-> {}, exclude_categories |-> {},
     min_score |-> 0, diversify |-> TRUE]

Contexts ==
    {Context(u, n, x) : u \in Users, n \in 0..MaxNum, x \in {{}, {"i1"}, {"i2", "i3"}}}

NoSnapshot == [interactions |-> <<>>, items |-> <<>>]

\* error: the exception of a sub-scorer's train() called directly; method: what
\* _choose_method of the switching engine returned
NoCall ==
    [op |-> "none", target |-> "none", context |-> Context("u1", 0, {}), fails |-> {},
     snapshot |-> NoSnapshot, item_id |-> "none", top_k |-> 0, raised |-> FALSE,
     error |-> NoError, method |-> "none", items |-> <<>>, weights |-> Weights(0, 0, 0)]

Tasks == {"t1", "t2"}

\* a train() coroutine: where it is suspended, the snapshot it was called
\* with, the engine it found when called and how its last run ended
NoTask == [pc |-> "idle", snapshot |-> NoSnapshot, before |-> HybridInit, outcome |-> "none"]

Nums == {1, MaxNum}

CacheKeys ==
    {RecKey(u, a, n) : u \in Users, a \in Algorithms, n \in Nums}
        \cup {UserKey(u) : u \in Users}
        \cup {ItemKey(i) : i \in Items}
        \cup {SimilarityKey(t, "cosine") : t \in {"user", "item"}}

EmptyCache == [key \in CacheKeys |-> NoEntry]

\* the tables before the first mutation; the items table is Catalog
InitialDb == [interactions |-> SnapshotA.interactions, ratings |-> {}]

\* RecommendationOptions without filters: diversify and the fields of
\* RecommendationFilter, an empty set for a list that is not given
DefaultOptions ==
    [diversify |-> TRUE, categories |-> {}, exclude_categories |-> {}, min_score |-> 0]

NoLast ==
    [seq |-> 0, kind |-> "none", user_id |-> "none", num |-> 0, status |-> "none",
     items |-> <<>>, computed |-> FALSE, at |-> 0, options |-> DefaultOptions]

\* the unit-test configuration: one caller, redis never connected
Init ==
    /\ engine = HybridInit
    /\ ties \in {"stable", "unstable"}
    /\ trains = 0
    /\ call = NoCall
    /\ connected = FALSE
    /\ tasks = [t \in Tasks |-> NoTask]
    /\ db = InitialDb
    /\ cache = EmptyCache
    /\ now = 0
    /\ last = NoLast

\* the caller holds no unconsumed result: calls on the engine are made one
\* after the other
Idle == call.op = "none"

\* the caller takes the result of its last call
Return ==
    /\ call.op # "none"
    /\ call' = NoCall
    /\ UNCHANGED <<engine, ties, trains, TrainVars, CacheVars>>

\* await engine.train(interactions, items), alone on the event loop
Train(snapshot) ==
    /\ Idle
    /\ trains < MaxTrains
    /\ LET r == HybridTrain(engine, snapshot)
       IN  /\ engine' = r.self
           /\ call' = [NoCall EXCEPT !.op = "train", !.snapshot = snapshot,
                                      !.raised = r.raised]
    /\ trains' = trains + 1
    /\ UNCHANGED <<ties, TrainVars, CacheVars>>

\* await engine._calculate_adaptive_weights(user_id)
Weigh(user_id) ==
    /\ Idle
    /\ call' = [NoCall EXCEPT !.op = "weights", !.context = Context(user_id, 0, {}),
                              !.weights = CalculateAdaptiveWeights(engine, user_id)]
    /\ UNCHANGED <<engine, ties, trains, TrainVars, CacheVars>>

\* recommend() letting the exception of a sub-scorer it called reach the caller
HybridRecommendPropagating(self, context, fails) ==
    IF \E c \in Range(HybridCalls(self, context, fails, ties)) : c.raised
    THEN [raised |-> TRUE, items |-> <<>>, self |-> self]
    ELSE [raised |-> FALSE, items |-> HybridRecommend(self, context, fails, ties),
          self |-> self]

\* recommend() leaving the engine with adaptive weighting switched off
HybridRecommendSwitchingOff(self, context, fails) ==
    [raised |-> FALSE, items |-> HybridRecommend(self, context, fails, ties),
     self |-> [self EXCEPT !.adaptive_weights = FALSE]]

\* the outcome of await engine.recommend(context): every exception of a
\* sub-scorer is caught inside recommend, and neither recommend nor the
\* sub-scorers' recommend and _cold_start_recommend assign to an attribute
\* or write into a matrix, so the engine is the one the call found
HybridRecommendOutcome(self, context, fails) ==
    [raised |-> FALSE, items |-> HybridRecommend(self, context, fails, ties),
     self |-> self]

Recommend(context, fails) ==
    /\ Idle
    /\ engine.is_trained
    /\ LET r == HybridRecommendOutcome(engine, context, fails)
       IN  /\ call' = [NoCall EXCEPT !.op = "recommend", !.target = "hybrid",
                                     !.context = context, !.fails = fails,
                                     !.raised = r.raised, !.items = r.items]
           /\ engine' = r.self
    /\ UNCHANGED <<ties, trains, TrainVars, CacheVars>>

SubRecommend(self, target, context) ==
    CASE target = "user_cf" -> UserCFRecommend(self.user_cf, context, ties)
      [] target = "item_cf" -> ItemCFRecommend(self.item_cf, context, ties)
      [] target = "content_based" -> ContentRecommend(self.content_based, context)
      [] target = "matrix_factorization" -> SVDRecommend(self.matrix_factorization, context)

\* await a sub-scorer's recommend(context) directly
RecommendSub(target, context) ==
    /\ Idle
    /\ engine.is_trained
    /\ call' = [NoCall EXCEPT !.op = "recommend", !.target = target, !.context = context,
                              !.items = SubRecommend(engine, target, context)]
    /\ UNCHANGED <<engine, ties, trains, TrainVars, CacheVars>>

GetItemSimilarityOf(self, target, item_id, top_k) ==
    CASE target = "user_cf" -> UserCFGetItemSimilarity(self.user_cf, item_id, top_k)
      [] target = "item_cf" -> ItemCFGetItemSimilarity(self.item_cf, item_id, top_k, ties)
      [] target = "content_based" -> ContentGetItemSimilarity(self.content_based, item_id, top_k)
      [] target = "matrix_factorization" ->
             SVDGetItemSimilarity(self.matrix_factorization, item_id, top_k)
      [] target = "hybrid" -> HybridGetItemSimilarity(self, item_id, top_k)

\* await get_item_similarity(item_id, top_k) on the engine or a sub-scorer
GetItemSimilarity(target, item_id, top_k) ==
    /\ Idle
    /\ engine.is_trained
    /\ call' = [NoCall EXCEPT !.op = "similarity", !.target = target,
                              !.item_id = item_id, !.top_k = top_k,
                              !.items = GetItemSimilarityOf(engine, target, item_id, top_k)]
    /\ UNCHANGED <<engine, ties, trains, TrainVars, CacheVars>>

Next ==
    \/ \E snapshot \in Snapshots : Train(snapshot)
    \/ \E user_id \in Users : Weigh(user_id)
    \/ \E context \in Contexts, fails \in SUBSET SubScorers : Recommend(context, fails)
    \/ \E target \in SubScorers, context \in Contexts : RecommendSub(target, context)
    \/ \E target \in SubScorers \cup {"hybrid"}, item_id \in Items, top_k \in 0..MaxTopK :
           GetItemSimilarity(target, item_id, top_k)
    \/ Return

Spec == Init /\ [][Next]_vars

(***************************************************************************)
(* SpecTrain: train() coroutines and recommend() on one engine instance,   *)
(* on one event loop.  A train() is suspended only inside                   *)
(* cache_manager.set_similarity_matrix, and only when redis is connected.   *)
(***************************************************************************)
InitTrain ==
    /\ engine = HybridInit
    /\ ties \in {"stable", "unstable"}
    /\ trains = 0
    /\ call = NoCall
    /\ connected \in BOOLEAN
    /\ tasks = [t \in Tasks |-> NoTask]
    /\ db = InitialDb
    /\ cache = EmptyCache
    /\ now = 0
    /\ last = NoLast

InFlight == {t \in Tasks : tasks[t].pc # "idle"}

\* the coroutine returns or raises
Finished(task, raised) ==
    [NoTask EXCEPT !.outcome = IF raised THEN "raised" ELSE "returned"]

\* the payload user_cf.train / item_cf.train hands to set_similarity_matrix
UserMatrixData(self) ==
    [matrix |-> self.user_similarity_matrix, user_mapping |-> self.user_mapping,
     item_mapping |-> self.item_mapping]
ItemMatrixData(self) ==
    [matrix |-> self.item_similarity_matrix, user_mapping |-> self.user_mapping,
     item_mapping |-> self.item_mapping]

\* a task calls engine.train(snapshot) and runs to the first suspension, or to
\* the end when nothing suspends it
TrainStart(t, snapshot) ==
    /\ tasks[t].pc = "idle"
    /\ trains < MaxTrains
    /\ trains' = trains + 1
    /\ IF connected
       THEN LET r == TrainSegment1(engine, snapshot)
            IN  /\ engine' = r.self
                /\ IF r.raised
                   THEN /\ tasks' = [tasks EXCEPT ![t] = Finished(@, TRUE)]
                        /\ cache' = cache
                   ELSE /\ tasks' = [tasks EXCEPT ![t] =
                                         [pc |-> "user_cf", snapshot |-> snapshot,
                                          before |-> engine, outcome |-> "none"]]
                        /\ cache' = SetSimilarityMatrix(cache, now, connected, "user",
                                         "cosine", UserMatrixData(r.self.user_cf))
       ELSE LET r == HybridTrain(engine, snapshot)
            IN  /\ engine' = r.self
                /\ tasks' = [tasks EXCEPT ![t] = Finished(@, r.raised)]
                /\ cache' = cache
    /\ UNCHANGED <<ties, call, connected, db, now, last>>

\* the cache write of user_cf.train is done: user_cf.train returns and
\* item_cf.train runs to its cache write
UserCFTrained(t) ==
    /\ tasks[t].pc = "user_cf"
    /\ LET r == TrainSegment2(engine, tasks[t].snapshot)
       IN  /\ engine' = r.self
           /\ IF r.raised
              THEN /\ tasks' = [tasks EXCEPT ![t] = Finished(@, TRUE)]
                   /\ cache' = cache
              ELSE /\ tasks' = [tasks EXCEPT ![t].pc = "item_cf"]
                   /\ cache' = SetSimilarityMatrix(cache, now, connected, "item",
                                    "cosine", ItemMatrixData(r.self.item_cf))
    /\ UNCHANGED <<ties, trains, call, connected, db, now, last>>

\* the cache write of item_cf.train is done: the rest of train() runs
ItemCFTrained(t) ==
    /\ tasks[t].pc = "item_cf"
    /\ LET r == TrainSegment3(engine, tasks[t].snapshot)
       IN  /\ engine' = r.self
           /\ tasks' = [tasks EXCEPT ![t] = Finished(@, r.raised)]
    /\ UNCHANGED <<ties, trains, call, connected, db, cache, now, last>>

TrainContexts == {Context(u, MaxNum, {}) : u \in Users}

\* another task calls engine.recommend(context); recommend() never suspends
RecommendNow(context) ==
    /\ Idle
    /\ engine.is_trained
    /\ LET r == HybridRecommendOutcome(engine, context, {})
       IN  /\ call' = [NoCall EXCEPT !.op = "recommend", !.target = "hybrid",
                                     !.context = context,
                                     !.raised = r.raised, !.items = r.items]
           /\ engine' = r.self
    /\ UNCHANGED <<ties, trains, TrainVars, CacheVars>>

NextTrain ==
    \/ \E t \in Tasks, snapshot \in Snapshots : TrainStart(t, snapshot)
    \/ \E t \in Tasks : UserCFTrained(t)
    \/ \E t \in Tasks : ItemCFTrained(t)
    \/ \E context \in TrainContexts : RecommendNow(context)
    \/ Return

SpecTrain == InitTrain /\ [][NextTrain]_vars

(***************************************************************************)
(* SpecCache: the resolvers in front of the cache.  Every recommendations   *)
(* request builds its own engine, trains it on the tables and asks it.      *)
(***************************************************************************)
MaxCalls == 2
MaxTicks == 2
Tick == recommendation_ttl \div 2
\* the users who call, one with collaborative data and one without any; the
\* item and the rating of the mutations
Callers == {"u1", "u3"}
Written == {"i2"}
Ratings == {2}

\* what _train_recommendation_engine leaves in redis: the two similarity
\* matrices, each written when its scorer got as far as its cache write
TrainCacheWrites(store, time, is_connected, snapshot) ==
    LET r1 == TrainSegment1(HybridInit, snapshot)
        r2 == TrainSegment2(r1.self, snapshot)
        s1 == SetSimilarityMatrix(store, time, is_connected, "user", "cosine",
                                  UserMatrixData(r1.self.user_cf))
        s2 == SetSimilarityMatrix(s1, time, is_connected, "item", "cosine",
                                  ItemMatrixData(r2.self.item_cf))
    IN  IF r1.raised THEN store ELSE IF r2.raised THEN s1 ELSE s2

\* cache_data: the dicts set_recommendations stores, one per item the item
\* loader found
CacheData(recommendations) ==
    LET found == SelectSeq(recommendations,
                           LAMBDA rec : rec.item_id \in Range(Column(Catalog, "id")))
    IN  [k \in DOMAIN found |-> Rec(found[k].item_id, found[k].score)]

\* the rows _train_recommendation_engine reads from the tables
TablesSnapshot(tables) == [interactions |-> tables.interactions, items |-> Catalog]

\* _train_recommendation_engine with SVD(random_state=None): the fitted model,
\* here the ratings its predictions average, differs from one engine instance
\* to the next
TrainOnTablesUnseeded(tables) ==
    LET r == HybridTrain(HybridInit, TablesSnapshot(tables))
    IN  [r EXCEPT !.self.matrix_factorization.trainset =
                      [k \in DOMAIN @ |-> [@[k] EXCEPT !.rating = @ + last.seq]]]

\* _train_recommendation_engine on the new engine of a request: the engine it
\* leaves and whether train() raised
TrainOnTables(tables) == HybridTrain(HybridInit, TablesSnapshot(tables))

\* the options the requests come with: none, and a filter that excludes a
\* category of the catalog
RequestOptions == {DefaultOptions, [DefaultOptions EXCEPT !.exclude_categories = {"action"}]}

\* RecommendationContext(...) as the resolver fills it: diversify is
\* options.diversify or True
ResolverContext(user_id, num, options) ==
    [Context(user_id, num, {}) EXCEPT !.include_categories = options.categories,
                                      !.exclude_categories = options.exclude_categories,
                                      !.min_score = options.min_score,
                                      !.diversify = options.diversify \/ TRUE]

\* Query.recommendations for the algorithm "hybrid": the response and what
\* redis holds afterwards; trained is what training the engine of this
\* request gives, should the request get that far.  The cache is read and
\* written under (user_id, algorithm, num_recommendations); the options are
\* read after the lookup
ResolveRecommendations(store, time, is_connected, tables, trained, user_id, num, options) ==
    LET cached_recommendations ==
            GetRecommendations(store, time, is_connected, user_id, "hybrid", num)
        after_train == TrainCacheWrites(store, time, is_connected, TablesSnapshot(tables))
        context == ResolverContext(user_id, num, options)
        items == CacheData(HybridRecommendOutcome(trained.self, context, {}).items)
    IN  IF cached_recommendations.found /\ cached_recommendations.value # <<>>
        THEN \* RecommendationItem(**item): the cached dicts have the key item_id,
             \* the type has the field item
             [status |-> "error", items |-> <<>>, computed |-> FALSE, cache |-> store]
        ELSE IF trained.raised
        THEN [status |-> "error", items |-> <<>>, computed |-> TRUE,
              cache |-> after_train]
        ELSE [status |-> "ok", items |-> items, computed |-> TRUE,
              cache |-> SetRecommendations(after_train, time, is_connected, user_id,
                                           "hybrid", items, num)]

InitCache ==
    /\ engine = HybridInit
    /\ ties \in {"stable", "unstable"}
    /\ trains = 0
    /\ call = NoCall
    /\ connected \in BOOLEAN
    /\ tasks = [t \in Tasks |-> NoTask]
    /\ db = InitialDb
    /\ cache = EmptyCache
    /\ now = 0
    /\ last = NoLast

Called(kind, user_id, num, status, items, computed) ==
    [seq |-> last.seq + 1, kind |-> kind, user_id |-> user_id, num |-> num,
     status |-> status, items |-> items, computed |-> computed, at |-> now,
     options |-> DefaultOptions]

\* a user asks for num recommendations with the given options
Request(user_id, num, options) ==
    /\ last.seq < MaxCalls
    /\ \E trained \in {TrainOnTables(db)} :
         \E r \in {ResolveRecommendations(cache, now, connected, db, trained,
                                          user_id, num, options)} :
             /\ cache' = r.cache
             /\ last' = [Called("recommendations", user_id, num, r.status, r.items,
                                r.computed) EXCEPT !.options = options]
    /\ UNCHANGED <<engine, ties, trains, call, TrainVars, db, now>>

\* Mutation.record_interaction
RecordInteraction(user_id, item_id) ==
    /\ last.seq < MaxCalls
    /\ db' = [db EXCEPT !.interactions = Append(@, ValueRow(user_id, item_id, 1))]
    /\ cache' = InvalidateUserCache(cache, connected, user_id)
    /\ last' = Called("record_interaction", user_id, 0, "ok", <<>>, FALSE)
    /\ UNCHANGED <<engine, ties, trains, call, TrainVars, now>>

\* Mutation.rate_item: the user's rating of the item is created or replaced
RateItem(user_id, item_id, rating) ==
    /\ last.seq < MaxCalls
    /\ db' = [db EXCEPT !.ratings =
                 {x \in @ : ~(x.user_id = user_id /\ x.item_id = item_id)}
                     \cup {[user_id |-> user_id, item_id |-> item_id, rating |-> rating]}]
    /\ cache' = InvalidateItemCache(InvalidateUserCache(cache, connected, user_id),
                                    connected, item_id)
    /\ last' = Called("rate_item", user_id, 0, "ok", <<>>, FALSE)
    /\ UNCHANGED <<engine, ties, trains, call, TrainVars, now>>

\* Query.me: user_loader.load reads the user through the user data cache
Me(user_id) ==
    /\ last.seq < MaxCalls
    /\ cache' = IF RedisGet(cache, now, connected, UserKey(user_id)).found
                THEN cache
                ELSE RedisSet(cache, now, connected, UserKey(user_id), <<user_id>>,
                              user_data_ttl)
    /\ last' = Called("me", user_id, 0, "ok", <<>>, FALSE)
    /\ UNCHANGED <<engine, ties, trains, call, TrainVars, db, now>>

\* time passes
Elapse ==
    /\ now < MaxTicks * Tick
    /\ now' = now + Tick
    /\ UNCHANGED <<engine, ties, trains, call, TrainVars, db, cache, last>>

NextCache ==
    \/ \E user_id \in Callers, num \in Nums, options \in RequestOptions :
           Request(user_id, num, options)
    \/ \E user_id \in Callers, item_id \in Written : RecordInteraction(user_id, item_id)
    \/ \E user_id \in Callers, item_id \in Written, rating \in Ratings :
           RateItem(user_id, item_id, rating)
    \/ \E user_id \in Callers : Me(user_id)
    \/ Elapse

SpecCache == InitCache /\ [][NextCache]_vars

(***************************************************************************)
(* SpecRedis: the redis client and the cache manager, call by call, with    *)
(* the values as json.dumps writes them and json.loads reads them, a        *)
(* cluster whose commands may raise a connection error, and a redis_client  *)
(* object whose methods may raise (the patched client of the unit tests).   *)
(***************************************************************************)
\* Python values
PyNone == [type |-> "NoneType"]
PyBool(b) == [type |-> "bool", truth |-> b]
PyInt(n) == [type |-> "int", number |-> n]
PyStr(s) == [type |-> "str", value |-> s]
PyUUID(s) == [type |-> "UUID", hex |-> s]
PyList(items) == [type |-> "list", items |-> items]
PyTuple(items) == [type |-> "tuple", items |-> items]
PyDict(keys, values) == [type |-> "dict", keys |-> keys, values |-> values]

\* the JSON text json.dumps produces, as its syntax tree
JsonNull == [json |-> "null"]
JsonNumber(n) == [json |-> "number", number |-> n]
JsonString(s) == [json |-> "string", value |-> s]
JsonArray(elements) == [json |-> "array", elements |-> elements]
JsonObject(names, values) == [json |-> "object", names |-> names, values |-> values]

\* json.dumps(value, default=str): list and tuple both become an array, a dict
\* key that is not a str becomes its str(), a value of any other type is
\* replaced by default(value) = str(value)
RECURSIVE JsonDumps(_)
JsonDumps(value) ==
    CASE value.type = "NoneType" -> JsonNull
      [] value.type = "bool" -> [json |-> "boolean", truth |-> value.truth]
      [] value.type = "int" -> JsonNumber(value.number)
      [] value.type = "str" -> JsonString(value.value)
      [] value.type \in {"list", "tuple"} ->
             JsonArray([k \in DOMAIN value.items |-> JsonDumps(value.items[k])])
      [] value.type = "dict" ->
             JsonObject([k \in DOMAIN value.keys |->
                            IF value.keys[k].type = "str" THEN value.keys[k].value
                            ELSE ToString(value.keys[k].number)],
                        [k \in DOMAIN value.values |-> JsonDumps(value.values[k])])
      [] value.type = "UUID" -> JsonString(value.hex)

\* json.loads(text): an array is a list, an object a dict with str keys
RECURSIVE JsonLoads(_)
JsonLoads(text) ==
    CASE text.json = "null" -> PyNone
      [] text.json = "boolean" -> PyBool(text.truth)
      [] text.json = "number" -> PyInt(text.number)
      [] text.json = "string" -> PyStr(text.value)
      [] text.json = "array" ->
             PyList([k \in DOMAIN text.elements |-> JsonLoads(text.elements[k])])
      [] text.json = "object" ->
             PyDict([k \in DOMAIN text.names |-> PyStr(text.names[k])],
                    [k \in DOMAIN text.values |-> JsonLoads(text.values[k])])

\* RedisClusterClient.get / set / delete letting the error of the cluster
\* command reach the caller
ClientGetPropagating(store, time, is_connected, raises, key) ==
    IF ~is_connected THEN [raised |-> FALSE, value |-> PyNone]
    ELSE IF raises THEN [raised |-> TRUE, value |-> PyNone]
    ELSE IF time < store[key].expires
    THEN [raised |-> FALSE, value |-> JsonLoads(store[key].value)]
    ELSE [raised |-> FALSE, value |-> PyNone]

\* RedisClusterClient.get: raises says that self._cluster.get raises.  The
\* stored text is never the empty string, so "if value" is "value is not None".
ClientGet(store, time, is_connected, raises, key) ==
    IF ~is_connected THEN [raised |-> FALSE, value |-> PyNone]
    ELSE IF raises THEN [raised |-> FALSE, value |-> PyNone]
    ELSE IF time < store[key].expires
    THEN [raised |-> FALSE, value |-> JsonLoads(store[key].value)]
    ELSE [raised |-> FALSE, value |-> PyNone]

\* RedisClusterClient.set: raises says that self._cluster.set raises
ClientSet(store, time, is_connected, raises, key, value, expire) ==
    IF ~is_connected \/ raises
    THEN [raised |-> FALSE, result |-> FALSE, store |-> store]
    ELSE [raised |-> FALSE, result |-> TRUE,
          store |-> [store EXCEPT ![key] = [value |-> JsonDumps(value),
                                            expires |-> time + expire]]]

\* RedisClusterClient.delete: result > 0 iff the key was held
ClientDelete(store, time, is_connected, raises, key) ==
    IF ~is_connected \/ raises
    THEN [raised |-> FALSE, result |-> FALSE, store |-> store]
    ELSE [raised |-> FALSE, result |-> time < store[key].expires,
          store |-> [store EXCEPT ![key] = NoEntry]]

\* where a call fails: "cluster" is a command of self._cluster raising a
\* connection error, "client" is the method of the redis_client object raising
Faults == {"none", "cluster", "client"}

\* CacheManager.get_recommendations: return await redis_client.get(cache_key)
ManagerGetRecommendations(store, time, is_connected, fault, user_id, algorithm, num_items) ==
    IF fault = "client" THEN [raised |-> TRUE, value |-> PyNone]
    ELSE ClientGet(store, time, is_connected, fault = "cluster",
                   RecKey(user_id, algorithm, num_items))

\* CacheManager.set_recommendations: return await redis_client.set(...)
ManagerSetRecommendations(store, time, is_connected, fault, user_id, algorithm, recommendations, num_items) ==
    IF fault = "client" THEN [raised |-> TRUE, result |-> FALSE, store |-> store]
    ELSE ClientSet(store, time, is_connected, fault = "cluster",
                   RecKey(user_id, algorithm, num_items), recommendations,
                   recommendation_ttl)

\* engine.train(snapshot) on a new engine with the cache writes of user_cf.train
\* and item_cf.train going through the client: an exception of a write would
\* end train
TrainWithClient(store, time, is_connected, raises, snapshot) ==
    LET r1 == TrainSegment1(HybridInit, snapshot)
        w1 == ClientSet(store, time, is_connected, raises, SimilarityKey("user", "cosine"),
                        UserMatrixData(r1.self.user_cf), similarity_ttl)
        r2 == TrainSegment2(r1.self, snapshot)
        w2 == ClientSet(w1.store, time, is_connected, raises, SimilarityKey("item", "cosine"),
                        ItemMatrixData(r2.self.item_cf), similarity_ttl)
        r3 == TrainSegment3(r2.self, snapshot)
    IN  IF r1.raised THEN [raised |-> TRUE, self |-> r1.self, store |-> store]
        ELSE IF w1.raised THEN [raised |-> TRUE, self |-> r1.self, store |-> store]
        ELSE IF r2.raised THEN [raised |-> TRUE, self |-> r2.self, store |-> w1.store]
        ELSE IF w2.raised THEN [raised |-> TRUE, self |-> r2.self, store |-> w1.store]
        ELSE [raised |-> r3.raised, self |-> r3.self, store |-> w2.store]

\* the recommendation lists as the Python value cache_data is
PyRecommendations(recommendations) ==
    PyList([k \in DOMAIN recommendations |->
               PyDict(<<PyStr("item_id"), PyStr("score")>>,
                      <<PyStr(recommendations[k].item_id), PyInt(recommendations[k].score)>>)])

\* Query.recommendations with every cache call going through the client;
\* trained is the outcome of TrainWithClient for this request
ResolveWithClient(time, is_connected, raises, trained, user_id, num) ==
    LET fault == IF raises THEN "cluster" ELSE "none"
        cached_recommendations ==
            ManagerGetRecommendations(trained.before, time, is_connected, fault,
                                      user_id, "hybrid", num)
        items == CacheData(HybridRecommendOutcome(trained.self, Context(user_id, num, {}),
                                                  {}).items)
        written == ManagerSetRecommendations(trained.store, time, is_connected, fault,
                                             user_id, "hybrid", PyRecommendations(items), num)
    IN  IF cached_recommendations.raised
        THEN [status |-> "error", items |-> <<>>, store |-> trained.before]
        ELSE IF cached_recommendations.value \notin {PyNone, PyList(<<>>)}
        THEN \* RecommendationItem(**item) raises TypeError on the cached dicts
             [status |-> "error", items |-> <<>>, store |-> trained.before]
        ELSE IF trained.raised
        THEN [status |-> "error", items |-> <<>>, store |-> trained.store]
        ELSE IF written.raised
        THEN [status |-> "error", items |-> <<>>, store |-> trained.store]
        ELSE [status |-> "ok", items |-> items, store |-> written.store]

\* the key and the values of the calls: the key of the cache manager calls, and
\* as values what set_recommendations stores for one item, a tuple, and
\* user.to_dict() with its UUID id
RedisKeys == {RecKey("u1", "hybrid", 1)}
Values ==
    {PyList(<<PyDict(<<PyStr("item_id")>>, <<PyStr("i1")>>)>>),
     PyTuple(<<PyStr("i1")>>),
     PyDict(<<PyStr("id")>>, <<PyUUID("u1")>>)}

\* the snapshots of the training calls: one that trains and one whose
\* training raises by itself
DownSnapshots == {SnapshotA, SnapshotC}

NoClientCall ==
    [kind |-> "none", key |-> <<>>, value |-> PyNone, fault |-> "none",
     raised |-> FALSE, result |-> PyNone]

InitRedis ==
    /\ engine = HybridInit
    /\ ties \in {"stable", "unstable"}
    /\ trains = 0
    /\ call = NoCall
    /\ connected \in BOOLEAN
    /\ tasks = [t \in Tasks |-> NoTask]
    /\ db = InitialDb
    /\ cache = EmptyCache
    /\ now = 0
    /\ last = NoClientCall

ClientCalled(kind, key, value, fault, raised, result) ==
    [kind |-> kind, key |-> key, value |-> value, fault |-> fault, raised |-> raised,
     result |-> result]

\* await redis_client.get(key)
ClientGetCall(key, raises) ==
    /\ LET r == ClientGet(cache, now, connected, raises, key)
       IN  last' = ClientCalled("get", key, PyNone, IF raises THEN "cluster" ELSE "none",
                                r.raised, r.value)
    /\ UNCHANGED <<engine, ties, trains, call, TrainVars, db, cache, now>>

\* await redis_client.set(key, value, expire)
ClientSetCall(key, value, expire, raises) ==
    /\ LET r == ClientSet(cache, now, connected, raises, key, value, expire)
       IN  /\ cache' = r.store
           /\ last' = ClientCalled("set", key, value,
                                   IF raises THEN "cluster" ELSE "none",
                                   r.raised, PyBool(r.result))
    /\ UNCHANGED <<engine, ties, trains, call, TrainVars, db, now>>

\* await redis_client.delete(key)
ClientDeleteCall(key, raises) ==
    /\ LET r == ClientDelete(cache, now, connected, raises, key)
       IN  /\ cache' = r.store
           /\ last' = ClientCalled("delete", key, PyNone,
                                   IF raises THEN "cluster" ELSE "none",
                                   r.raised, PyBool(r.result))
    /\ UNCHANGED <<engine, ties, trains, call, TrainVars, db, now>>

\* await cache_manager.get_recommendations(user_id, "hybrid", num_items)
ManagerGetCall(user_id, num_items, fault) ==
    /\ LET r == ManagerGetRecommendations(cache, now, connected, fault, user_id,
                                          "hybrid", num_items)
       IN  last' = ClientCalled("get_recommendations", RecKey(user_id, "hybrid", num_items),
                                PyNone, fault, r.raised, r.value)
    /\ UNCHANGED <<engine, ties, trains, call, TrainVars, db, cache, now>>

\* await cache_manager.set_recommendations(user_id, "hybrid", value, num_items)
ManagerSetCall(user_id, num_items, value, fault) ==
    /\ LET r == ManagerSetRecommendations(cache, now, connected, fault, user_id,
                                          "hybrid", value, num_items)
       IN  /\ cache' = r.store
           /\ last' = ClientCalled("set_recommendations",
                                   RecKey(user_id, "hybrid", num_items), value,
                                   fault, r.raised, PyBool(r.result))
    /\ UNCHANGED <<engine, ties, trains, call, TrainVars, db, now>>

\* await engine.train(snapshot) on a new engine while the cache does not
\* answer: the client is disconnected or the commands of the cluster raise
TrainCacheDown(snapshot, raises) ==
    /\ ~connected \/ raises
    /\ \E r \in {TrainWithClient(cache, now, connected, raises, snapshot)} :
         /\ cache' = r.store
         /\ last' = ClientCalled("train", <<>>, snapshot,
                                 IF raises THEN "cluster" ELSE "none", r.raised,
                                 r.self)
    /\ UNCHANGED <<engine, ties, trains, call, TrainVars, db, now>>

\* Query.recommendations while the cache does not answer
RequestCacheDown(user_id, num, raises) ==
    /\ ~connected \/ raises
    /\ \E t \in {TrainWithClient(cache, now, connected, raises, TablesSnapshot(db))} :
         \E r \in {ResolveWithClient(now, connected, raises,
                                     [before |-> cache, raised |-> t.raised,
                                      self |-> t.self, store |-> t.store],
                                     user_id, num)} :
             /\ cache' = r.store
             /\ last' = ClientCalled("recommendations", RecKey(user_id, "hybrid", num),
                                     PyNone, IF raises THEN "cluster" ELSE "none",
                                     r.status = "error", r.items)
    /\ UNCHANGED <<engine, ties, trains, call, TrainVars, db, now>>

NextRedis ==
    \/ \E key \in RedisKeys, raises \in BOOLEAN : ClientGetCall(key, raises)
    \/ \E key \in RedisKeys, value \in Values, raises \in BOOLEAN :
           ClientSetCall(key, value, recommendation_ttl, raises)
    \/ \E key \in RedisKeys, raises \in BOOLEAN : ClientDeleteCall(key, raises)
    \/ \E fault \in Faults : ManagerGetCall("u1", 1, fault)
    \/ \E value \in Values, fault \in Faults : ManagerSetCall("u1", 1, value, fault)
    \/ \E snapshot \in DownSnapshots, raises \in BOOLEAN : TrainCacheDown(snapshot, raises)
    \/ \E user_id \in Callers, raises \in BOOLEAN :
           RequestCacheDown(user_id, MaxNum, raises)
    \/ Elapse

SpecRedis == InitRedis /\ [][NextRedis]_vars

(***************************************************************************)
(* SpecDecorator: calls of a function wrapped by cache_result, on the       *)
(* client of SpecRedis, with direct writes of the same key and the clock.   *)
(***************************************************************************)
\* the ttl argument's default
default_ttl == 3600

\* what the wrapped function does in one call: returns a value or raises
Outcomes ==
    {[raised |-> FALSE, value |-> v] : v \in Values \cup {PyNone}}
        \cup {[raised |-> TRUE, value |-> PyNone]}

\* the wrapper of cache_result writing every result, None included
CacheResultWritingNone(store, time, is_connected, raises, cache_key, ttl, outcome) ==
    LET cached_result == ClientGet(store, time, is_connected, raises, cache_key).value
        written == ClientSet(store, time, is_connected, raises, cache_key, outcome.value, ttl)
    IN  IF cached_result # PyNone
        THEN [executed |-> FALSE, raised |-> FALSE, got |-> cached_result,
              result |-> cached_result, sets |-> <<>>, store |-> store]
        ELSE IF outcome.raised
        THEN [executed |-> TRUE, raised |-> TRUE, got |-> cached_result,
              result |-> PyNone, sets |-> <<>>, store |-> store]
        ELSE [executed |-> TRUE, raised |-> FALSE, got |-> cached_result,
              result |-> outcome.value,
              sets |-> <<[key |-> cache_key, value |-> outcome.value, expire |-> ttl]>>,
              store |-> written.store]

\* the wrapper of cache_result(key_prefix, ttl, key_func) around a function
\* whose call has the given outcome: got is what redis_client.get returned,
\* executed says whether the function ran, sets lists the redis_client.set
\* calls made, raises says that the cluster commands raise
CacheResult(store, time, is_connected, raises, cache_key, ttl, outcome) ==
    LET cached_result == ClientGet(store, time, is_connected, raises, cache_key).value
        written == ClientSet(store, time, is_connected, raises, cache_key, outcome.value, ttl)
    IN  IF cached_result # PyNone
        THEN [executed |-> FALSE, raised |-> FALSE, got |-> cached_result,
              result |-> cached_result, sets |-> <<>>, store |-> store]
        ELSE IF outcome.raised
        THEN [executed |-> TRUE, raised |-> TRUE, got |-> cached_result,
              result |-> PyNone, sets |-> <<>>, store |-> store]
        ELSE IF outcome.value # PyNone
        THEN [executed |-> TRUE, raised |-> FALSE, got |-> cached_result,
              result |-> outcome.value,
              sets |-> <<[key |-> cache_key, value |-> outcome.value, expire |-> ttl]>>,
              store |-> written.store]
        ELSE [executed |-> TRUE, raised |-> FALSE, got |-> cached_result,
              result |-> PyNone, sets |-> <<>>, store |-> store]

Ttls == {Tick, default_ttl}

\* await wrapped(*args): key_func gives the key
WrappedCall(key, ttl, outcome, raises) ==
    /\ \E r \in {CacheResult(cache, now, connected, raises, key, ttl, outcome)} :
           /\ cache' = r.store
           /\ last' = [kind |-> "cache_result", key |-> key, ttl |-> ttl,
                       fault |-> IF raises THEN "cluster" ELSE "none",
                       got |-> r.got, executed |-> r.executed, raised |-> r.raised,
                       result |-> r.result, sets |-> r.sets]
    /\ UNCHANGED <<engine, ties, trains, call, TrainVars, db, now>>

NextDecorator ==
    \/ \E key \in RedisKeys, ttl \in Ttls, outcome \in Outcomes, raises \in BOOLEAN :
           WrappedCall(key, ttl, outcome, raises)
    \/ \E key \in RedisKeys, value \in Values : ClientSetCall(key, value, recommendation_ttl, FALSE)
    \/ Elapse

SpecDecorator == InitRedis /\ [][NextDecorator]_vars

(***************************************************************************)
(* SpecFilters: one engine trained on a catalog with four items of one      *)
(* category and asked with contexts that set the category filters, the     *)
(* minimum score and the diversify flag.                                    *)
(***************************************************************************)
max_per_category == 3
WideNum == 5

\* BaseRecommendationEngine._diversify_recommendations: defined by the base
\* class; no engine calls it
RECURSIVE DiversifyRecommendations(_, _, _)
DiversifyRecommendations(recommendations, categories, diversified) ==
    IF recommendations = <<>> THEN diversified
    ELSE LET item == Head(recommendations)
             current_count ==
                 Cardinality({k \in DOMAIN diversified :
                                  categories[diversified[k].item_id] = categories[item.item_id]})
         IN  DiversifyRecommendations(Tail(recommendations), categories,
                                      IF current_count < max_per_category
                                      THEN Append(diversified, item) ELSE diversified)

\* BaseRecommendationEngine._apply_filters: defined by the base class; no
\* engine calls it
ApplyFilters(recommendations, context, categories) ==
    Take(SelectSeq(recommendations,
                   LAMBDA item :
                       /\ ~(item.score < context.min_score)
                       /\ ~(context.exclude_items # {} /\ item.item_id \in context.exclude_items)
                       /\ ~(context.include_categories # {}
                            /\ categories[item.item_id] \notin context.include_categories)
                       /\ ~(context.exclude_categories # {}
                            /\ categories[item.item_id] \in context.exclude_categories)),
         context.num_recommendations)

\* the rows of SnapshotA with a catalog of four action items and one comedy
SnapshotE ==
    [interactions |-> SnapshotA.interactions,
     items |-> Catalog \o <<ItemRecord("i4", "action", 2, <<2, 1>>),
                            ItemRecord("i5", "action", 1, <<1, 0>>)>>]

\* half of the largest similarity, in the unit of the hybrid scores
HalfScore == (Scale * WeightUnit) \div 2

FilterContexts ==
    {[Context(u, n, {}) EXCEPT !.include_categories = inc, !.exclude_categories = exc,
                               !.min_score = m, !.diversify = d] :
         u \in {"u1", "u3"}, n \in {2, WideNum}, inc \in {{}, {"comedy"}},
         exc \in {{}, {"action"}}, m \in {0, HalfScore}, d \in BOOLEAN}

NextFilters ==
    \/ Train(SnapshotE)
    \/ \E context \in FilterContexts : Recommend(context, {})
    \/ Return

SpecFilters == Init /\ [][NextFilters]_vars

(***************************************************************************)
(* SpecCF: the two collaborative scorers constructed with a threshold and   *)
(* trained directly, one train() at a time, redis not connected.           *)
(***************************************************************************)
MaxThreshold == 2
Thresholds == 1..MaxThreshold

\* UserBasedCollaborativeFiltering.train run to its end: the cache write of a
\* client that is not connected does nothing
UserCFTrain(self, interactions) ==
    LET r == UserCFTrainBuild(self, interactions)
    IN  IF r.raised THEN r ELSE [r EXCEPT !.self = TrainFinish(r.self)]

\* ItemBasedCollaborativeFiltering.train run to its end
ItemCFTrain(self, interactions) ==
    LET r == ItemCFTrainBuild(self, interactions)
    IN  IF r.raised THEN r ELSE [r EXCEPT !.self = TrainFinish(r.self)]

\* the rows of one (user, item) pair: no value key, an interaction value, a
\* rating of 0, a rating, both keys with a rating of 0
PairRows(u, i) ==
    {Row(u, i, None, None), ValueRow(u, i, 2), RatingRow(u, i, 0), RatingRow(u, i, 3),
     Row(u, i, 2, 0)}

\* the lists train() is called with: no row, every list of one or two rows of
\* one pair, and lists over several pairs in which users and items differ in
\* their number of rows
CFInputs ==
    {<<>>}
        \cup {<<a>> : a \in PairRows("u1", "i1")}
        \cup {<<a, b>> : a \in PairRows("u1", "i1"), b \in PairRows("u1", "i1")}
        \cup {<<ValueRow("u1", "i1", 1), ValueRow("u1", "i2", 1), ValueRow("u2", "i1", 1)>>,
              <<ValueRow("u1", "i1", 1), ValueRow("u1", "i2", 2), ValueRow("u2", "i1", 1),
                ValueRow("u2", "i2", 1)>>,
              <<ValueRow("u1", "i1", 1), ValueRow("u2", "i2", 1), ValueRow("u1", "i1", 2)>>}

CollaborativeScorers == {"user_cf", "item_cf"}

InitCF ==
    /\ \E m \in Thresholds :
           engine = [HybridInit EXCEPT !.user_cf = UserCFNew(m), !.item_cf = ItemCFNew(m)]
    /\ ties = "stable"
    /\ trains = 0
    /\ call = NoCall
    /\ connected = FALSE
    /\ tasks = [t \in Tasks |-> NoTask]
    /\ db = InitialDb
    /\ cache = EmptyCache
    /\ now = 0
    /\ last = NoLast

\* await engine.user_cf.train(interactions) / engine.item_cf.train(interactions)
TrainCF(target, interactions) ==
    /\ Idle
    /\ trains < MaxTrains
    /\ \E r \in {IF target = "user_cf" THEN UserCFTrain(engine.user_cf, interactions)
                 ELSE ItemCFTrain(engine.item_cf, interactions)} :
           /\ engine' = [engine EXCEPT ![target] = r.self]
           /\ call' = [NoCall EXCEPT !.op = "train", !.target = target,
                                      !.snapshot = [interactions |-> interactions, items |-> <<>>],
                                      !.raised = r.raised, !.error = r.error]
    /\ trains' = trains + 1
    /\ UNCHANGED <<ties, TrainVars, CacheVars>>

NextCF ==
    \/ \E target \in CollaborativeScorers, interactions \in CFInputs : TrainCF(target, interactions)
    \/ Return

SpecCF == InitCF /\ [][NextCF]_vars

(***************************************************************************)
(* SpecSwitching: one SwitchingHybridRecommendationEngine, trained and      *)
(* asked by one caller, redis not connected.                               *)
(***************************************************************************)
\* the switching criterion set by the constructor
min_interactions_for_cf == 10

\* ImplicitMFRecommendationEngine: the mappings and the confidence matrix; the
\* factors of the ALS model are the library's and are not computed
ImplicitMFInit ==
    [is_trained |-> FALSE,
     user_mapping |-> <<>>, item_mapping |-> <<>>,
     reverse_user_mapping |-> <<>>, reverse_item_mapping |-> <<>>,
     user_item_matrix |-> <<>>]

\* ImplicitMFRecommendationEngine.train on rows that all carry an
\* interaction_value or all carry none: confidence = 1 + alpha * value with
\* alpha = 1.0, and csr_matrix adds the confidences of the rows of one cell
ImplicitMFTrain(self, interactions) ==
    LET unique_users == Unique(Column(interactions, "user_id"))
        unique_items == Unique(Column(interactions, "item_id"))
        confidence(row) == 1 + RowGet(interactions, row, "interaction_value", 1)
        matrix ==
            [ui \in DOMAIN unique_users |->
                [ii \in DOMAIN unique_items |->
                    SumSeq([k \in DOMAIN interactions |->
                               IF /\ interactions[k].user_id = unique_users[ui]
                                  /\ interactions[k].item_id = unique_items[ii]
                               THEN confidence(interactions[k]) ELSE 0])]]
    IN  IF interactions = <<>> THEN [raised |-> TRUE, self |-> self]
        ELSE [raised |-> FALSE,
              self |-> [self EXCEPT !.user_mapping = Mapping(unique_users),
                                    !.item_mapping = Mapping(unique_items),
                                    !.reverse_user_mapping = unique_users,
                                    !.reverse_item_mapping = unique_items,
                                    !.user_item_matrix = matrix,
                                    !.is_trained = TRUE]]

\* ImplicitMFRecommendationEngine.recommend.  For a known user model.recommend
\* gives at most 2 * num_recommendations items the user has no row for, in the
\* order of their ALS scores; the scores are not computed (None) and the
\* candidates are listed by index, which is their order when there is one.
ImplicitMFRecommend(self, context, tie_order) ==
    IF ~self.is_trained THEN <<>>
    ELSE IF context.user_id \notin DOMAIN self.user_mapping
    THEN CFColdStartRecommend(self, context, tie_order)
    ELSE LET user_idx == self.user_mapping[context.user_id]
             candidates == SelectSeq([ii \in DOMAIN self.reverse_item_mapping |-> ii],
                                     LAMBDA ii : self.user_item_matrix[user_idx][ii] = 0)
             found == Take(candidates, 2 * context.num_recommendations)
         IN  Take([p \in DOMAIN found |-> Rec(self.reverse_item_mapping[found[p]], None)],
                  context.num_recommendations)

SwitchingInit ==
    [is_trained |-> FALSE,
     min_interactions_for_cf |-> min_interactions_for_cf,
     user_cf |-> UserCFInit,
     item_cf |-> ItemCFInit,
     content_based |-> ContentInit,
     matrix_factorization |-> ImplicitMFInit]

\* SwitchingHybridRecommendationEngine.train: the first sub-scorer that raises
\* ends it
SwitchingTrain(self, snapshot) ==
    LET u == UserCFTrain(self.user_cf, snapshot.interactions)
        i == ItemCFTrain(self.item_cf, snapshot.interactions)
        c == ContentTrain(self.content_based, snapshot.interactions, snapshot.items)
        m == ImplicitMFTrain(self.matrix_factorization, snapshot.interactions)
        after_user == [self EXCEPT !.user_cf = u.self]
        after_item == [after_user EXCEPT !.item_cf = i.self]
        after_content == [after_item EXCEPT !.content_based = c.self]
    IN  IF u.raised THEN [raised |-> TRUE, self |-> after_user]
        ELSE IF i.raised THEN [raised |-> TRUE, self |-> after_item]
        ELSE IF c.raised THEN [raised |-> TRUE, self |-> after_content]
        ELSE IF m.raised THEN [raised |-> TRUE, self |-> after_content]
        ELSE [raised |-> FALSE,
              self |-> [after_content EXCEPT !.matrix_factorization = m.self,
                                             !.is_trained = TRUE]]

\* _choose_method with a strict comparison: more than the minimum
ChooseMethodAboveMinimum(self, user_id) ==
    LET user_interaction_count ==
            IF user_id \in DOMAIN self.user_cf.user_mapping
            THEN LET user_vector == self.user_cf.user_item_matrix[self.user_cf.user_mapping[user_id]]
                 IN  Cardinality({ii \in DOMAIN user_vector :
                                      user_vector[ii] # NaN /\ user_vector[ii] > 0})
            ELSE 0
    IN  IF user_interaction_count > self.min_interactions_for_cf
        THEN "collaborative_filtering"
        ELSE IF user_id \in DOMAIN self.content_based.user_profiles THEN "content_based"
        ELSE IF user_id \in DOMAIN self.matrix_factorization.user_mapping
        THEN "matrix_factorization"
        ELSE "content_based"

\* SwitchingHybridRecommendationEngine._choose_method: np.sum(user_vector > 0)
\* counts the cells that are positive, nan is not
ChooseMethod(self, user_id) ==
    LET user_interaction_count ==
            IF user_id \in DOMAIN self.user_cf.user_mapping
            THEN LET user_vector == self.user_cf.user_item_matrix[self.user_cf.user_mapping[user_id]]
                 IN  Cardinality({ii \in DOMAIN user_vector :
                                      user_vector[ii] # NaN /\ user_vector[ii] > 0})
            ELSE 0
    IN  IF user_interaction_count >= self.min_interactions_for_cf
        THEN "collaborative_filtering"
        ELSE IF user_id \in DOMAIN self.content_based.user_profiles THEN "content_based"
        ELSE IF user_id \in DOMAIN self.matrix_factorization.user_mapping
        THEN "matrix_factorization"
        ELSE "content_based"

\* SwitchingHybridRecommendationEngine.recommend, no sub-scorer raising
SwitchingRecommend(self, context, tie_order) ==
    LET method == ChooseMethod(self, context.user_id)
    IN  IF ~self.is_trained THEN <<>>
        ELSE CASE method = "collaborative_filtering" ->
                      UserCFRecommend(self.user_cf, context, tie_order)
               [] method = "content_based" -> ContentRecommend(self.content_based, context)
               [] method = "matrix_factorization" ->
                      ImplicitMFRecommend(self.matrix_factorization, context, tie_order)
               [] OTHER -> ItemCFRecommend(self.item_cf, context, tie_order)

SwitchItems == <<"i1", "i2", "i3", "i4", "i5", "i6", "i7", "i8", "i9", "i10">>

\* one row of the user for each of the items from..to
RowsOver(u, from, to) ==
    [k \in 1..(to - from + 1) |-> ValueRow(u, SwitchItems[from + k - 1], 1)]

\* u1 has RowCopies rows for each of ten items, u2 a row for nine of them
\* with the only item of the catalog, u4 a row for the nine that are not in
\* the catalog
SnapshotS ==
    [interactions |->
         [k \in 1..(RowCopies * 10) |-> ValueRow("u1", SwitchItems[((k - 1) % 10) + 1], 1)]
             \o RowsOver("u2", 1, 9) \o RowsOver("u4", 2, 10),
     items |-> SubSeq(Catalog, 1, 1)]

SwitchSnapshots == {SnapshotS, SnapshotA, SnapshotC}
SwitchUsers == {"u1", "u2", "u3", "u4"}

InitSwitching ==
    /\ engine = SwitchingInit
    /\ ties \in {"stable", "unstable"}
    /\ trains = 0
    /\ call = NoCall
    /\ connected = FALSE
    /\ tasks = [t \in Tasks |-> NoTask]
    /\ db = InitialDb
    /\ cache = EmptyCache
    /\ now = 0
    /\ last = NoLast

\* await engine.train(interactions, items) on the switching engine
TrainSwitching(snapshot) ==
    /\ Idle
    /\ trains < MaxTrains
    /\ \E r \in {SwitchingTrain(engine, snapshot)} :
           /\ engine' = r.self
           /\ call' = [NoCall EXCEPT !.op = "train", !.target = "switching",
                                      !.snapshot = snapshot, !.raised = r.raised]
    /\ trains' = trains + 1
    /\ UNCHANGED <<ties, TrainVars, CacheVars>>

\* await engine._choose_method(user_id)
Choose(user_id) ==
    /\ Idle
    /\ call' = [NoCall EXCEPT !.op = "choose", !.target = "switching",
                              !.context = Context(user_id, 0, {}),
                              !.method = ChooseMethod(engine, user_id)]
    /\ UNCHANGED <<engine, ties, trains, TrainVars, CacheVars>>

\* await engine.recommend(context) on the switching engine
RecommendSwitching(context) ==
    /\ Idle
    /\ call' = [NoCall EXCEPT !.op = "recommend", !.target = "switching",
                              !.context = context,
                              !.method = IF engine.is_trained
                                         THEN ChooseMethod(engine, context.user_id)
                                         ELSE "none",
                              !.items = SwitchingRecommend(engine, context, ties)]
    /\ UNCHANGED <<engine, ties, trains, TrainVars, CacheVars>>

NextSwitching ==
    \/ \E snapshot \in SwitchSnapshots : TrainSwitching(snapshot)
    \/ \E user_id \in SwitchUsers : Choose(user_id)
    \/ \E user_id \in SwitchUsers, n \in 0..MaxNum :
           RecommendSwitching(Context(user_id, n, {}))
    \/ Return

SpecSwitching == InitSwitching /\ [][NextSwitching]_vars

(***************************************************************************)
(* Properties of the engine under Spec                                     *)
(***************************************************************************)
Availabilities == {<<cf, cb, mf>> : cf \in BOOLEAN, cb \in BOOLEAN, mf \in BOOLEAN}

\* C1: the weights _calculate_adaptive_weights returns sum to 1.0, for every
\* subset of the sub-scorers that has data for the user (none of them is the
\* cold-start case), and so do the weights every call on the engine returned.
C1_WeightsSumToOne ==
    /\ \A a \in Availabilities :
           SumWeights(AdaptiveWeights(TRUE, a[1], a[2], a[3])) = WeightUnit
    /\ call.op = "weights" => SumWeights(call.weights) = WeightUnit

\* a user with data in the content and matrix-factorization scorers only: the
\* collaborative weight is zero and the other two were renormalised
C1_Witness ==
    /\ call.op = "weights"
    /\ ~HasCFData(engine, call.context.user_id)
    /\ HasContentData(engine, call.context.user_id)
    /\ HasMFData(engine, call.context.user_id)
    /\ call.weights.collaborative = 0
    /\ call.weights.content > Hundredths(content_weight)

C3_NoExcludedItem ==
    (call.op = "recommend" /\ call.target = "hybrid")
        => \A k \in DOMAIN call.items :
               call.items[k].item_id \notin call.context.exclude_items

\* C4: get_item_similarity(x, top_k) returns at most top_k pairs and none of
\* them is x itself, on every engine.
C4_SimilarityWithoutSelf ==
    call.op = "similarity"
        => /\ Len(call.items) <= call.top_k
           /\ \A k \in DOMAIN call.items : call.items[k].item_id # call.item_id

WeightOf(weights, name) ==
    CASE name \in {"user_cf", "item_cf"} -> weights.collaborative
      [] name = "content_based" -> weights.content
      [] name = "matrix_factorization" -> weights.matrix_factorization

\* the sub-scorers the last hybrid recommend() called and that returned
Succeeded ==
    LET weights == CalculateAdaptiveWeights(engine, call.context.user_id)
    IN  {name \in SubScorers \ call.fails :
             /\ WeightOf(weights, name) > 0
             /\ name = "item_cf" => "user_cf" \in call.fails}

\* what sub-scorer name contributes to the score of item_id
Contribution(name, item_id) ==
    IF name \notin Succeeded THEN 0
    ELSE LET recs == SubRecommend(engine, name, call.context)
             weights == CalculateAdaptiveWeights(engine, call.context.user_id)
         IN  WeightOf(weights, name)
                 * SumSeq([k \in DOMAIN recs |->
                              IF recs[k].item_id = item_id THEN recs[k].score ELSE 0])

SucceededItems ==
    UNION {{r.item_id : r \in Range(SubRecommend(engine, name, call.context))} :
               name \in Succeeded}

\* C7: the hybrid recommend() never raises whatever sub-scorers raise; it
\* returns the merge of exactly the sub-scorers that returned, cut to
\* num_recommendations, and the empty list when all of them failed.
C7_FailuresSwallowed ==
    (call.op = "recommend" /\ call.target = "hybrid")
        => /\ ~call.raised
           /\ \A k \in DOMAIN call.items :
                  /\ call.items[k].item_id \in SucceededItems
                  /\ call.items[k].score =
                         Contribution("user_cf", call.items[k].item_id)
                         + Contribution("item_cf", call.items[k].item_id)
                         + Contribution("content_based", call.items[k].item_id)
                         + Contribution("matrix_factorization", call.items[k].item_id)
           /\ Len(call.items)
                  = Min2(call.context.num_recommendations, Cardinality(SucceededItems))
           /\ Succeeded = {} => call.items = <<>>

\* user_cf raised, item_cf answered in its place, content_based raised too,
\* and the merge of the two that returned is not empty
C7_Witness ==
    /\ call.op = "recommend"
    /\ call.target = "hybrid"
    /\ ~call.raised
    /\ {"user_cf", "content_based"} \subseteq call.fails
    /\ HasContentData(engine, call.context.user_id)
    /\ Succeeded = {"item_cf", "matrix_factorization"}
    /\ Len(call.items) > 1

\* whether a sub-scorer, taken alone and new, trains on the snapshot
TrainsAlone(name, snapshot) ==
    CASE name = "user_cf" -> ~UserCFTrainBuild(UserCFInit, snapshot.interactions).raised
      [] name = "item_cf" -> ~ItemCFTrainBuild(ItemCFInit, snapshot.interactions).raised
      [] name = "content_based" ->
             ~ContentTrain(ContentInit, snapshot.interactions, snapshot.items).raised
      [] name = "matrix_factorization" -> ~SVDTrain(SVDInit, snapshot.interactions).raised

\* C8: when the training of one sub-scorer fails on a snapshot another
\* sub-scorer can train on, the hybrid train() does not raise and the engine
\* is trained afterwards.
C8_PartialTraining ==
    (/\ call.op = "train"
     /\ \E name \in SubScorers : ~TrainsAlone(name, call.snapshot)
     /\ \E name \in SubScorers : TrainsAlone(name, call.snapshot))
        => ~call.raised /\ engine.is_trained

(***************************************************************************)
(* Properties of concurrent training under SpecTrain                       *)
(***************************************************************************)
\* the engine a completed train(snapshot) leaves when it ran on a new engine
Fresh(snapshot) == HybridTrain(HybridInit, snapshot)

\* C9: a recommend() that runs while a retraining is suspended returns what
\* the engine returned before the retraining started: it observes the state
\* the previous completed training left.  The step is the recommend() of a
\* caller while exactly one train() is suspended, no other train() has run,
\* and that train() was called on an engine a completed training had left.
C9_ObservesPreviousTraining ==
    [][\A t \in Tasks :
          (/\ InFlight = {t}
           /\ \A u \in Tasks \ {t} : tasks[u] = NoTask
           /\ \E snapshot \in Snapshots :
                  /\ ~Fresh(snapshot).raised
                  /\ tasks[t].before = Fresh(snapshot).self
           /\ call.op = "none"
           /\ call'.op = "recommend")
              => call'.items = HybridRecommend(tasks[t].before, call'.context, {}, ties)]_vars

\* the state train() derives from its snapshot alone, whatever the engine held
Derived(self) ==
    [user_cf |-> self.user_cf,
     item_cf |-> self.item_cf,
     content_item_mapping |-> self.content_based.item_mapping,
     content_features_matrix |-> self.content_based.combined_features_matrix,
     matrix_factorization |-> self.matrix_factorization]

\* C10: concurrent train() calls are serialized: once every train() called
\* has returned, the derived state of every sub-scorer is that of one
\* snapshot.
C10_TrainsSerialized ==
    (/\ InFlight = {}
     /\ trains > 0
     /\ \A t \in Tasks : tasks[t].outcome \in {"none", "returned"})
        => \E snapshot \in Snapshots :
               /\ ~Fresh(snapshot).raised
               /\ Derived(engine) = Derived(Fresh(snapshot).self)

(***************************************************************************)
(* Properties of the cache under SpecCache                                 *)
(***************************************************************************)
Mutations == {"record_interaction", "rate_item"}

\* C5: once record_interaction or rate_item by a user has completed, no
\* recommendation list cached for that user is readable: get_recommendations
\* misses for every algorithm and number of items; the similarity matrices
\* stay.
C5_WriteInvalidatesLists ==
    [][(last'.seq = last.seq + 1 /\ last'.kind \in Mutations)
          => /\ \A a \in Algorithms, n \in Nums :
                    ~GetRecommendations(cache', now', connected', last'.user_id, a, n).found
             /\ \A t \in {"user", "item"} :
                    cache'[SimilarityKey(t, "cosine")] = cache[SimilarityKey(t, "cosine")]]_vars

\* C6: a recommendations request that follows an answered request of the same
\* user with the same options, with no call in between, before the cached
\* list expires and with redis connected, returns the same items and scores
\* and does not train or ask an engine.
C6_SecondRequestFromCache ==
    [][(/\ connected
        /\ last'.seq = last.seq + 1
        /\ last.kind = "recommendations"
        /\ last.status = "ok"
        /\ last'.kind = "recommendations"
        /\ last'.user_id = last.user_id
        /\ last'.num = last.num
        /\ last'.options = last.options
        /\ now' < last.at + recommendation_ttl)
          => /\ last'.status = "ok"
             /\ last'.items = last.items
             /\ ~last'.computed]_vars

(***************************************************************************)
(* Properties of training on a trained engine, under Spec                  *)
(***************************************************************************)
\* C11: a train() that raises on a trained engine leaves the engine and every
\* sub-scorer as they were before the call.
C11_FailedTrainKeepsState ==
    [][(engine.is_trained /\ call.op = "none" /\ call'.op = "train" /\ call'.raised)
          => engine' = engine]_vars

\* C12: after a train() that returns, the engine is the one a new instance
\* trained on the same snapshot alone would be, whatever it was trained on
\* before.
C12_RetrainEqualsFresh ==
    [][(call.op = "none" /\ call'.op = "train" /\ ~call'.raised)
          => engine' = Fresh(call'.snapshot).self]_vars

(* Properties of recommend() for a user no sub-scorer knows, under Spec *)
\* the user of the last call is in no sub-scorer's index and has no profile
ColdUser ==
    /\ ~HasCFData(engine, call.context.user_id)
    /\ call.context.user_id \notin DOMAIN engine.item_cf.user_mapping
    /\ ~HasContentData(engine, call.context.user_id)
    /\ ~HasMFData(engine, call.context.user_id)

\* every sub-scorer was trained and the stored catalog is not empty
TrainedWithCatalog ==
    /\ engine.is_trained
    /\ \A name \in SubScorers : engine[name].is_trained
    /\ engine.content_based.item_features # <<>>

ScoreIn(recs, item_id) ==
    SumSeq([k \in DOMAIN recs |-> IF recs[k].item_id = item_id THEN recs[k].score ELSE 0])

\* the popularity of an item for the last call: the three popularity scores the
\* sub-scorers' cold-start lists give it, weighted 0.33 / 0.33 / 0.34
ColdStartPopularity(item_id) ==
    Hundredths(33) * ScoreIn(CFColdStartRecommend(engine.user_cf, call.context, ties), item_id)
    + Hundredths(33) * ScoreIn(ContentColdStartRecommend(engine.content_based, call.context), item_id)
    + Hundredths(34) * ScoreIn(SVDColdStartRecommend(engine.matrix_factorization, call.context), item_id)

ColdStartCandidates ==
    {r.item_id : r \in Range(CFColdStartRecommend(engine.user_cf, call.context, ties))
                     \cup Range(ContentColdStartRecommend(engine.content_based, call.context))
                     \cup Range(SVDColdStartRecommend(engine.matrix_factorization, call.context))}

\* the list is the head of the popularity ranking
RankedByPopularity ==
    /\ \A k \in DOMAIN call.items :
           /\ call.items[k].item_id \in ColdStartCandidates
           /\ call.items[k].score = ColdStartPopularity(call.items[k].item_id)
           /\ \A j \in 1..(k - 1) : call.items[j].score >= call.items[k].score
    /\ \A i \in ColdStartCandidates \ {r.item_id : r \in Range(call.items)} :
           \A k \in DOMAIN call.items : ColdStartPopularity(i) <= call.items[k].score

ColdStartCall ==
    /\ call.op = "recommend"
    /\ call.target = "hybrid"
    /\ ColdUser
    /\ TrainedWithCatalog

InteractedWith(snapshot, user_id) ==
    {snapshot.interactions[k].item_id :
         k \in {j \in DOMAIN snapshot.interactions :
                    snapshot.interactions[j].user_id = user_id}}

\* C14: for a user with rows in the snapshot the engine was trained on, every
\* item recommend() returns is one the user has no row with, and every score
\* is strictly positive.
C14_UnseenAndPositive ==
    \A snapshot \in Snapshots :
        (/\ call.op = "recommend"
         /\ call.target = "hybrid"
         /\ call.fails = {}
         /\ ~Fresh(snapshot).raised
         /\ engine = Fresh(snapshot).self
         /\ InteractedWith(snapshot, call.context.user_id) # {})
            => \A k \in DOMAIN call.items :
                   /\ call.items[k].item_id
                          \notin InteractedWith(snapshot, call.context.user_id)
                   /\ call.items[k].score > 0

(***************************************************************************)
(* Properties of the cache client and the cache manager under SpecRedis    *)
(***************************************************************************)
\* the last call met a cache that does not answer: the client is not
\* connected, or the command of the cluster raised a connection error
CacheDown == last.fault # "client" /\ (~connected \/ last.fault = "cluster")

\* the outcome of the last request is what the engine computes without any
\* cache: the error of the training, or the list of the trained engine
ComputedDirectly ==
    \E trained \in {TrainOnTables(db)} :
        /\ last.raised = trained.raised
        /\ last.result = IF trained.raised THEN <<>>
                         ELSE CacheData(HybridRecommend(trained.self,
                                                        Context(last.key[2], last.key[4], {}),
                                                        {}, ties))

C16_ManagerSwallowsClientError ==
    last.fault = "client"
        => /\ ~last.raised
           /\ last.kind = "get_recommendations" => last.result = PyNone
           /\ last.kind = "set_recommendations" => last.result = PyBool(FALSE)

\* C20: a get(k) that follows a set(k, v) with no call in between and before
\* the entry expires returns a value equal to v; stated for a connected client
\* and calls in which nothing raises.
C20_SetThenGet ==
    [][(/\ connected
        /\ last.kind \in {"set", "set_recommendations"}
        /\ last.fault = "none"
        /\ last'.kind \in {"get", "get_recommendations"}
        /\ last'.fault = "none"
        /\ last'.key = last.key
        /\ now' < cache[last.key].expires)
           => last'.result = last.value]_vars

(***************************************************************************)
(* Properties of the context's filters under SpecFilters                   *)
(***************************************************************************)
\* the category the trained catalog gives an item
CategoryOf(item_id) == ItemFeaturesOf(engine.content_based, item_id).category

RECURSIVE IsSubsequence(_, _)
IsSubsequence(s, t) ==
    IF s = <<>> THEN TRUE
    ELSE IF t = <<>> THEN FALSE
    ELSE IF Head(s) = Head(t) THEN IsSubsequence(Tail(s), Tail(t))
    ELSE IsSubsequence(s, Tail(t))

\* C17: with context.diversify true the list recommend() returns holds at most
\* 3 items of any one category and is a subsequence of the score-ranked list.
C17_AtMostThreePerCategory ==
    (call.op = "recommend" /\ call.target = "hybrid" /\ call.context.diversify)
        => /\ \A k \in DOMAIN call.items :
                  Cardinality({j \in DOMAIN call.items :
                                   CategoryOf(call.items[j].item_id)
                                       = CategoryOf(call.items[k].item_id)})
                      <= max_per_category
           /\ IsSubsequence(call.items,
                            HybridRecommendUnsliced(engine, call.context, call.fails, ties))

\* C18: every item recommend() returns has a score of at least
\* context.min_score, a category in include_categories when that is not empty,
\* and a category not in exclude_categories, for known and unknown users.
C18_FiltersHold ==
    (call.op = "recommend" /\ call.target = "hybrid")
        => \A k \in DOMAIN call.items :
               /\ call.items[k].score >= call.context.min_score
               /\ call.context.include_categories # {}
                      => CategoryOf(call.items[k].item_id) \in call.context.include_categories
               /\ CategoryOf(call.items[k].item_id) \notin call.context.exclude_categories

Trained == engine[call.target]

\* the rows the scorer's filter keeps of the list it was last called with
Survivors == FilterInteractions(call.snapshot.interactions, Trained.min_interactions)

\* C21: collaborative train (user-based and item-based) fails with the
\* insufficient-data error whenever no row survives the min-interactions
\* filter; is_trained then stays false and the mappings and matrices are as
\* they were before the call.
C21_NoSurvivorFails ==
    [][(call'.op = "train" /\ Survivors' = <<>>)
           => /\ call'.raised
              /\ call'.error = NotEnoughData
              /\ engine'[call'.target] = engine[call'.target]
              /\ ~engine[call'.target].is_trained => ~engine'[call'.target].is_trained]_vars

\* C22: training a new user-based scorer on a single interaction row is
\* rejected with 'Not enough interaction data' and leaves the scorer
\* untrained, for every min_interactions >= 1.
C22_SingleRowRejected ==
    (/\ call.op = "train"
     /\ call.target = "user_cf"
     /\ trains = 1
     /\ Len(call.snapshot.interactions) = 1)
        => /\ call.raised
           /\ call.error = NotEnoughData
           /\ ~engine.user_cf.is_trained

(***************************************************************************)
(* Properties of cache_result under SpecDecorator                          *)
(***************************************************************************)
\* C23: the wrapped function is executed iff the cache get for its key
\* returned None; on a hit the cached value is returned and nothing is
\* written; on a miss the result is written exactly once with the given ttl,
\* except that a None result (and a call that raised) writes nothing.  The
\* steps are the calls of the wrapped function: the clock stands still.
C23_CacheResult ==
    [][(last'.kind = "cache_result" /\ now' = now)
           => /\ last'.executed <=> last'.got = PyNone
              /\ last'.got # PyNone
                     => /\ last'.result = last'.got
                        /\ last'.sets = <<>>
                        /\ cache' = cache
              /\ (last'.got = PyNone /\ ~last'.raised /\ last'.result # PyNone)
                     => /\ last'.sets = <<[key |-> last'.key, value |-> last'.result,
                                           expire |-> last'.ttl]>>
                        /\ (connected /\ last'.fault = "none")
                               => cache'[last'.key] = [value |-> JsonDumps(last'.result),
                                                        expires |-> now + last'.ttl]
              /\ (last'.raised \/ (last'.executed /\ last'.result = PyNone))
                     => last'.sets = <<>> /\ cache' = cache]_vars

\* a miss whose result was written, found again by the client before it expires
C23_Witness ==
    /\ last.kind = "cache_result"
    /\ last.executed
    /\ Len(last.sets) = 1
    /\ connected
    /\ now > 0
    /\ cache[last.key] = [value |-> JsonDumps(last.result), expires |-> now + last.ttl]

(***************************************************************************)
(* Properties of the merge of the hybrid recommend(), under Spec           *)
(***************************************************************************)
Families == {"collaborative_filtering", "content_based", "matrix_factorization"}

\* the sub-scorer that answered for a family in the last hybrid recommend():
\* for the collaborative family user_cf, or item_cf when user_cf raised
Answering(family) ==
    {name \in Succeeded :
         IF family = "collaborative_filtering" THEN name \in {"user_cf", "item_cf"}
         ELSE name = family}

\* the family's score of the item times the family's weight, 0 when the family
\* did not recommend the item
FamilyShare(family, item_id) ==
    IF \E name \in Answering(family) :
           \E r \in Range(SubRecommend(engine, name, call.context)) : r.item_id = item_id
    THEN LET name == CHOOSE name \in Answering(family) : TRUE
         IN  WeightOf(CalculateAdaptiveWeights(engine, call.context.user_id), name)
                 * ScoreIn(SubRecommend(engine, name, call.context), item_id)
    ELSE 0

CombinedScore(item_id) ==
    FamilyShare("collaborative_filtering", item_id) + FamilyShare("content_based", item_id)
        + FamilyShare("matrix_factorization", item_id)

Returned == {call.items[k].item_id : k \in DOMAIN call.items}

\* C24: the combined score of each returned item is the sum, over the
\* families that recommended it, of the family's score times its resolved
\* weight, each family counted once; the list is in descending order of the
\* combined score and was sorted before it was cut: no item left out has a
\* higher combined score than a returned one.
C24_WeightedSumSortedThenCut ==
    (call.op = "recommend" /\ call.target = "hybrid")
        => /\ Cardinality(Returned) = Len(call.items)
           /\ \A k \in DOMAIN call.items :
                  call.items[k].score = CombinedScore(call.items[k].item_id)
           /\ \A k \in DOMAIN call.items :
                  k < Len(call.items) => call.items[k].score >= call.items[k + 1].score
           /\ \A item_id \in SucceededItems \ Returned :
                  /\ Len(call.items) = call.context.num_recommendations
                  /\ \A k \in DOMAIN call.items : CombinedScore(item_id) <= call.items[k].score

\* three families answered, an item has the score of two of them, and the
\* sorted merge was cut
C24_Witness ==
    /\ call.op = "recommend"
    /\ call.target = "hybrid"
    /\ call.fails = {}
    /\ Cardinality(Succeeded) = 3
    /\ Len(call.items) >= 2
    /\ SucceededItems \ Returned # {}
    /\ \E k \in DOMAIN call.items :
           Cardinality({family \in Families :
                            FamilyShare(family, call.items[k].item_id) > 0}) >= 2

\* whether the sub-scorers of a family have data for the user of the last call
HasData(family) ==
    CASE family = "collaborative_filtering" -> HasCFData(engine, call.context.user_id)
      [] family = "content_based" -> HasContentData(engine, call.context.user_id)
      [] family = "matrix_factorization" -> HasMFData(engine, call.context.user_id)

FamilyWeight(family) ==
    LET weights == CalculateAdaptiveWeights(engine, call.context.user_id)
    IN  CASE family = "collaborative_filtering" -> weights.collaborative
          [] family = "content_based" -> weights.content
          [] family = "matrix_factorization" -> weights.matrix_factorization

\* the families whose sub-scorers the last hybrid recommend() invoked
Invoked ==
    {c.method : c \in Range(HybridCalls(engine, call.context, call.fails, ties))}

\* C25: when at least one sub-scorer has data for the user, every sub-scorer
\* that lacks data has weight 0, is not invoked and is in no item's score or
\* method list; when none has data the weights are 0.33 / 0.33 / 0.34 and all
\* three are invoked.
C25_LackingDataNotInvoked ==
    (call.op = "recommend" /\ call.target = "hybrid")
        => IF \E family \in Families : HasData(family)
           THEN \A family \in Families :
                    ~HasData(family)
                        => /\ FamilyWeight(family) = 0
                           /\ family \notin Invoked
                           /\ \A k \in DOMAIN call.items :
                                  /\ family \notin Range(call.items[k].methods)
                                  /\ call.items[k].score =
                                         SumSeq([q \in 1..3 |->
                                             LET other == <<"collaborative_filtering",
                                                            "content_based",
                                                            "matrix_factorization">>[q]
                                             IN  IF other = family THEN 0
                                                 ELSE FamilyShare(other, call.items[k].item_id)])
           ELSE /\ CalculateAdaptiveWeights(engine, call.context.user_id)
                       = Weights(Hundredths(33), Hundredths(33), Hundredths(34))
                /\ Invoked = Families

\* a user the collaborative scorers do not know and the other two do, served
\* by those two
C25_Witness ==
    /\ call.op = "recommend"
    /\ call.target = "hybrid"
    /\ call.fails = {}
    /\ ~HasData("collaborative_filtering")
    /\ HasData("content_based")
    /\ HasData("matrix_factorization")
    /\ call.items # <<>>
    /\ \A k \in DOMAIN call.items :
           Range(call.items[k].methods) \subseteq {"content_based", "matrix_factorization"}

(***************************************************************************)
(* Properties of the switching engine under SpecSwitching                  *)
(***************************************************************************)
\* the positive cells of the user's row of the user-based matrix
PositiveCells(user_id) ==
    IF user_id \in DOMAIN engine.user_cf.user_mapping
    THEN LET row == engine.user_cf.user_item_matrix[engine.user_cf.user_mapping[user_id]]
         IN  Cardinality({ii \in DOMAIN row : row[ii] # NaN /\ row[ii] > 0})
    ELSE 0

\* the richest method the trained state offers the user, in the order
\* collaborative, content, factorization; "cold start" when it offers none
Richest(user_id) ==
    IF PositiveCells(user_id) >= 10 THEN "collaborative_filtering"
    ELSE IF user_id \in DOMAIN engine.content_based.user_profiles THEN "content_based"
    ELSE IF user_id \in DOMAIN engine.matrix_factorization.user_mapping
    THEN "matrix_factorization"
    ELSE "cold start"

\* the list the method's scorer gives for the context; the cold-start path is
\* the popularity list of the content scorer
ListOf(method, context) ==
    CASE method = "collaborative_filtering" -> UserCFRecommend(engine.user_cf, context, ties)
      [] method = "content_based" -> ContentRecommend(engine.content_based, context)
      [] method = "matrix_factorization" ->
             ImplicitMFRecommend(engine.matrix_factorization, context, ties)
      [] method = "cold start" -> ContentColdStartRecommend(engine.content_based, context)

\* C26: the switching engine chooses the method on every call from the
\* trained state alone and stores nothing: collaborative filtering exactly
\* when the user has at least 10 positive cells in the user-based matrix,
\* else content-based when the user has a profile, else matrix factorization
\* when the user is in its index, else the cold-start path.
C26_ChoosesRichestMethod ==
    [][(call'.target = "switching" /\ call'.op \in {"choose", "recommend"})
           => /\ engine' = engine
              /\ (call'.op = "choose" \/ engine.is_trained)
                     => call'.method =
                            IF Richest(call'.context.user_id) = "cold start"
                            THEN "content_based"
                            ELSE Richest(call'.context.user_id)
              /\ call'.op = "recommend"
                     => call'.items =
                            IF engine.is_trained
                            THEN ListOf(Richest(call'.context.user_id), call'.context)
                            ELSE <<>>]_vars

\* a user with exactly ten positive cells, a content profile and a row of the
\* factorization matrix is served by collaborative filtering
C26_Witness ==
    /\ call.op = "recommend"
    /\ call.target = "switching"
    /\ engine.is_trained
    /\ PositiveCells(call.context.user_id) = 10
    /\ call.context.user_id \in DOMAIN engine.content_based.user_profiles
    /\ call.context.user_id \in DOMAIN engine.matrix_factorization.user_mapping
    /\ call.method = "collaborative_filtering"

\* the value the row stands for: its rating if it has one, else its
\* interaction value, 1.0 when it has neither
StatedValue(row) ==
    IF row.rating # None THEN row.rating
    ELSE IF row.interaction_value # None THEN row.interaction_value
    ELSE 1

\* the last row of the list for the pair, 0 when there is none
LastRowOf(interactions, user_id, item_id) ==
    LET hits == {k \in DOMAIN interactions : /\ interactions[k].user_id = user_id
                                             /\ interactions[k].item_id = item_id}
    IN  IF hits = {} THEN 0 ELSE CHOOSE k \in hits : \A j \in hits : j <= k

\* C27: in the matrix collaborative train builds, the cell of (user, item)
\* holds the value of the last input row of the pair, the row's rating if it
\* has one and else its interaction value (1.0 when absent), for every
\* rating including 0 and for lists that mix rows with and without a rating.
C27_CellHoldsLastRow ==
    (call.op = "train" /\ call.error \in {NoError, InputContainsNaN})
        => \A user_id \in DOMAIN Trained.user_mapping, item_id \in DOMAIN Trained.item_mapping :
               LET k == LastRowOf(call.snapshot.interactions, user_id, item_id)
               IN  k # 0 => Trained.user_item_matrix[Trained.user_mapping[user_id]]
                                                     [Trained.item_mapping[item_id]]
                                = StatedValue(call.snapshot.interactions[k])

\* the threshold of the scorer last trained
Threshold == Trained.min_interactions

\* C28: after a successful collaborative train with threshold m, every user
\* and every item of the index mappings has at least m rows among the rows
\* that remain after filtering, the rows the matrix is built from.
C28_MappedHaveEnoughSurvivingRows ==
    (call.op = "train" /\ ~call.raised)
        => /\ \A user_id \in DOMAIN Trained.user_mapping :
                  Count(Survivors, "user_id", user_id) >= Threshold
           /\ \A item_id \in DOMAIN Trained.item_mapping :
                  Count(Survivors, "item_id", item_id) >= Threshold

\* C28, amended: after a successful collaborative train with threshold m,
\* every user and every item of the index mappings has at least m rows in
\* the list train was called with, and a user or item is in the mappings
\* exactly when one of its rows has a user and an item that both do.
C28_MappedHaveEnoughInputRows ==
    (call.op = "train" /\ ~call.raised)
        => LET rows == call.snapshot.interactions
               enough(f, x) == Cardinality({k \in DOMAIN rows : rows[k][f] = x}) >= Threshold
               kept == {k \in DOMAIN rows : /\ enough("user_id", rows[k].user_id)
                                            /\ enough("item_id", rows[k].item_id)}
           IN  /\ \A user_id \in DOMAIN Trained.user_mapping : enough("user_id", user_id)
               /\ \A item_id \in DOMAIN Trained.item_mapping : enough("item_id", item_id)
               /\ DOMAIN Trained.user_mapping = {rows[k].user_id : k \in kept}
               /\ DOMAIN Trained.item_mapping = {rows[k].item_id : k \in kept}

\* a train with threshold 2 that dropped rows and left a mapped user with
\* fewer rows than the threshold
C28_Witness ==
    /\ call.op = "train"
    /\ ~call.raised
    /\ Threshold = 2
    /\ Len(Survivors) < Len(call.snapshot.interactions)
    /\ \E user_id \in DOMAIN Trained.user_mapping : Count(Survivors, "user_id", user_id) = 1

====
